---- MODULE Spec2Model ----
(***************************************************************************)
(* A model of the aurex purchase pipeline:                                 *)
(*   - the PoW node        (src/blockchain/pow_node.py)                    *)
(*   - the gateway         (src/blockchain/gateway_server.py)              *)
(*   - the app-server transaction pipeline                                 *)
(*                         (src/python_files/server_moudle.py)             *)
(*   - the wallet store    (src/python_files/DB_ORM.py)                    *)
(*                                                                         *)
(* Threads are modelled by their position: a handler is cut into steps     *)
(* where it reads or writes state shared with another thread.              *)
(*                                                                         *)
(* SHA-256 is modelled as a collision-free digest: the digest of           *)
(* (data, nonce) is the tuple of what was hashed, so that two digests are  *)
(* equal exactly when the hashed bytes are.  The number of leading '0'     *)
(* characters of a digest is a fixed function of the digest.               *)
(***************************************************************************)
EXTENDS Integers, Sequences, FiniteSets, TLC

\* ------------------------------------------------------------------ bounds
MaxTx == 1          \* purchases / transactions submitted in a run
MaxClock == 1       \* readings of the wall clock: 0..MaxClock
MaxNonce == 1       \* the winning nonce of a digest lies in 0..MaxNonce
MaxBalance == 200   \* wallet balances explored by the transfer specification
MaxResend == 1      \* block confirmations that reach the gateway a second time
MaxSubmit == 2      \* transactions sent to the gateway by submit_transaction
TipIndex == 5       \* the index of the tip from which the chain specification starts
MaxBuy == 2         \* BUY requests accepted in a run of the purchases specification
MaxConfirm == 1     \* transactions applied in a run of the confirmation specification
MaxHandlers == 2    \* new_block handler threads of a node alive at a time (statement-level writes)
MaxUuid == 3        \* distinct values uuid.uuid4() can draw
MaxRestart == 1     \* rows that restarts add to the nodes table

\* ------------------------------------------------------- program constants
difficulty == 2
tx_timeout_seconds == 600

Nodes == {"n1", "n2"}
NODE_PORTS == Nodes
TxIds == 1..MaxTx
Users == {"alice", "bob"}

\* ------------------------------------------------------------- the digest
ZeroHash == <<>>

\* hashlib.sha256(f"{data}{nonce}") with data the key-sorted JSON of
\* {index, prev_hash, timestamp, tx}
Sha256(data, nonce) == <<data.prev_hash, data.timestamp, data.index, data.tx, nonce>>

\* The count of leading '0' hex characters of a digest.
LeadingZeros(h) ==
    IF h = ZeroHash THEN 64
    ELSE IF h[5] = (h[2] + h[3] + h[4]) % (MaxNonce + 1) THEN difficulty ELSE 0

\* hash.startswith('0' * d)
StartsWithTarget(h, d) == LeadingZeros(h) >= d

\* key_manager.sign_data / verify_signature: RSA-PSS, unforgeable.
sign_data(node, h) == [signer |-> node, over |-> h]
verify_signature(pem, h, sig) == sig.signer = pem /\ sig.over = h

VARIABLES
    \* --- PoW node (one instance per n \in Nodes)
    mempool,            \* [Nodes -> Seq(TxIds)]
    mempool_lock,       \* [Nodes -> {"free", "collector"}]
    last_block_index,   \* [Nodes -> Int]
    last_block_hash,    \* [Nodes -> digest]
    ledger,             \* [Nodes -> set of block rows]   (blocks table, "index" PRIMARY KEY)
    stop_mining_event,  \* [Nodes -> BOOLEAN]
    result_queue,       \* [Nodes -> Seq(<<digest, nonce>>)]
    miner_process,      \* [Nodes -> [alive, data, nonce]]
    inbox,              \* [Nodes -> set of messages not yet read by a handler thread]
    nt_threads,         \* [Nodes -> Nat]  NEW_TRANSACTION handlers about to call _start_mining_if_needed
    nb_threads,         \* [Nodes -> set of [pc, blk, head]]  new_block handlers past the ledger
                        \* write; head records the mempool head at the time of the write
    cpc,                \* [Nodes -> position of the result collector]
    cblk,               \* [Nodes -> the block the collector is completing]
    now,                \* the wall clock
    online,             \* the nodes that are running (listening on their port)
    nb_warning,         \* [Nodes -> the last rejection logged by _handle_new_block]
    sm_threads,         \* [Nodes -> Nat]  threads in _start_mining_if_needed past the alive check
    orphans,            \* [Nodes -> set of mining processes still alive that self.miner_process
                        \* no longer refers to]
    node_id,            \* [Nodes -> the uuid the running process drew in __init__]
    nodes_table,        \* rows [node_id, port] of the nodes table (node_id UNIQUE)
    key_files,          \* the node ids that have a key pair in the keys directory
    \* --- gateway
    gw_inbox,           \* block_confirmation messages sent by nodes, not yet handled
    gw_blocks,          \* block_confirmations rows (block_hash UNIQUE) of _record_block_confirmation
    conf_inbox,         \* Seq of confirmations forwarded to the app server, not yet consumed
    resends,            \* confirmations delivered to the gateway a second time
    gw_replies,         \* the replies of the gateway to submit_purchase / submit_transaction
    attempts,           \* Seq of [tx, port, ok]: the connects of broadcast_transaction
    \* --- app server
    tx_status,          \* [TxIds -> status record]
    tx_queue,           \* Seq(TxIds)
    wpc, wtx, wreply,   \* submission worker: position, purchase in hand, gateway reply
    to_timeout,         \* timeout monitor: tx ids collected by the scan, still to be written
    gpc,                \* [TxIds -> BOOLEAN] a GET_TX_STATUS read the record as expired
    expired,            \* [TxIds -> BOOLEAN] time.time() - created_at > tx_timeout_seconds
    wallets,            \* [Users -> Int]
    emitted,            \* [TxIds -> Nat] calls of _emit_tx_notifications
    transfers,          \* Seq of [block_hash, tx_id, ok]: the consumer's calls of transfer
    term_writes,        \* [TxIds -> Nat] _set_tx_status calls with a terminal status
    xfer,               \* the last call of transfer: [from, to, amount, ok, before, asset_id,
                        \* owner_before, tx_id]
    buy_req,            \* the last BUY handled by handle_buy_asset, with its reply
    monitor_alive,      \* the _tx_timeout_worker thread is running
    asset_owner         \* marketplace_items.username of the asset

nodeVars == <<mempool, mempool_lock, last_block_index, last_block_hash, ledger,
              stop_mining_event, result_queue, miner_process, inbox, nt_threads,
              nb_threads, cpc, cblk, now, online, node_id, nodes_table, key_files, nb_warning, sm_threads, orphans>>
gwVars == <<gw_inbox, gw_blocks, conf_inbox, resends, gw_replies, attempts>>
appVars == <<tx_status, tx_queue, wpc, wtx, wreply, to_timeout, gpc, expired,
             wallets, emitted, transfers, term_writes, xfer, buy_req, monitor_alive, asset_owner>>
vars == <<nodeVars, gwVars, appVars>>

\* ================================================================ PoW node
\* uuid.uuid4(): the values a draw can give
Uuids == 1..MaxUuid
\* The ids the nodes drew when they were first constructed; no action but a restart
\* reads or writes them.
FirstUuid(n) == IF n = "n1" THEN 1 ELSE 2

NoData == [prev_hash |-> ZeroHash, timestamp |-> 0, index |-> 0, tx |-> 0]
NoMiner == [alive |-> FALSE, data |-> NoData, nonce |-> 0, difficulty |-> difficulty]
NoBlock == [index |-> -1, timestamp |-> 0, prev_hash |-> ZeroHash, current_hash |-> ZeroHash,
            nonce |-> 0, miner_id |-> "", signature |-> sign_data("", ZeroHash),
            public_key_pem |-> "", tx |-> 0]

\* A row of the blocks table with its transaction row (public_key_pem is not stored).
Row(b) == [index |-> b.index, timestamp |-> b.timestamp, prev_hash |-> b.prev_hash,
           current_hash |-> b.current_hash, nonce |-> b.nonce, miner_id |-> b.miner_id,
           signature |-> b.signature, tx |-> b.tx]

\* known_nodes as seeded from NODE_PORTS in __init__
known_nodes(n) == NODE_PORTS \ {n}

NewTransactionMsg(t) == [type |-> "NEW_TRANSACTION", tx |-> t, data |-> NoBlock]
NewBlockMsg(p) == [type |-> "new_block", tx |-> 0, data |-> p]

\* A blocks table without the key on "index": no insert ever fails
IndexTaken_Never(n, i) == FALSE

\* INSERT INTO blocks fails on a taken "index" (PRIMARY KEY)
IndexTaken(n, i) == \E b \in ledger[n] : b.index = i

\* The wall clock moves.
Tick ==
    /\ now < MaxClock
    /\ now' = now + 1
    /\ UNCHANGED <<mempool, mempool_lock, last_block_index, last_block_hash, ledger,
                   stop_mining_event, result_queue, miner_process, inbox, nt_threads,
                   nb_threads, cpc, cblk, online, node_id, nodes_table, key_files, nb_warning, sm_threads, orphans, gwVars, appVars>>

\* _handle_new_transaction: ack, append to the mempool under mempool_lock; the thread
\* goes on to _start_mining_if_needed.
HandleNewTransaction(n) ==
    \E m \in inbox[n] :
        /\ m.type = "NEW_TRANSACTION"
        /\ mempool_lock[n] = "free"
        /\ inbox' = [inbox EXCEPT ![n] = @ \ {m}]
        /\ mempool' = [mempool EXCEPT ![n] = Append(@, m.tx)]
        /\ nt_threads' = [nt_threads EXCEPT ![n] = @ + 1]
        /\ UNCHANGED <<mempool_lock, last_block_index, last_block_hash, ledger,
                       stop_mining_event, result_queue, miner_process, nb_threads,
                       cpc, cblk, now, online, node_id, nodes_table, key_files, nb_warning, sm_threads, orphans, gwVars, appVars>>

\* The data _start_mining_if_needed hands to the miner.
data_to_hash(n) == [prev_hash |-> last_block_hash[n], timestamp |-> now,
                    index |-> last_block_index[n] + 1, tx |-> Head(mempool[n])]

\* _start_mining_if_needed, called by a NEW_TRANSACTION handler thread.
StartMiningIfNeeded(n) ==
    /\ nt_threads[n] > 0
    /\ IF miner_process[n].alive
       THEN UNCHANGED <<miner_process, stop_mining_event>>
       ELSE /\ mempool_lock[n] = "free"
            /\ IF mempool[n] = <<>>
               THEN UNCHANGED <<miner_process, stop_mining_event>>
               ELSE /\ stop_mining_event' = [stop_mining_event EXCEPT ![n] = FALSE]
                    /\ miner_process' = [miner_process EXCEPT ![n] =
                           [alive |-> TRUE, data |-> data_to_hash(n), nonce |-> 0,
                            difficulty |-> difficulty]]
    /\ nt_threads' = [nt_threads EXCEPT ![n] = @ - 1]
    /\ UNCHANGED <<mempool, mempool_lock, last_block_index, last_block_hash, ledger,
                   result_queue, inbox, nb_threads, cpc, cblk, now, online, node_id, nodes_table, key_files, nb_warning, sm_threads, orphans, gwVars, appVars>>

\* A nonce loop that reports the digest of its first iteration whatever it is
hashing_process_NoTarget(n) ==
    /\ miner_process[n].alive
    /\ LET p == miner_process[n]
           hash_attempt == Sha256(p.data, p.nonce)
       IN  IF stop_mining_event[n]
           THEN /\ miner_process' = [miner_process EXCEPT ![n] = NoMiner]
                /\ UNCHANGED result_queue
           ELSE IF TRUE
           THEN /\ result_queue' = [result_queue EXCEPT ![n] = Append(@, <<hash_attempt, p.nonce>>)]
                /\ miner_process' = [miner_process EXCEPT ![n] = NoMiner]
           ELSE /\ miner_process' = [miner_process EXCEPT ![n].nonce = @ + 1]
                /\ UNCHANGED result_queue
    /\ UNCHANGED <<mempool, mempool_lock, last_block_index, last_block_hash, ledger,
                   stop_mining_event, inbox, nt_threads, nb_threads, cpc, cblk, now,
                   online, node_id, nodes_table, key_files, nb_warning, sm_threads, orphans, gwVars, appVars>>

\* A nonce loop that never looks at the stop event
hashing_process_IgnoreStop(n) ==
    /\ miner_process[n].alive
    /\ LET p == miner_process[n]
           hash_attempt == Sha256(p.data, p.nonce)
       IN  IF FALSE
           THEN /\ miner_process' = [miner_process EXCEPT ![n] = NoMiner]
                /\ UNCHANGED result_queue
           ELSE IF StartsWithTarget(hash_attempt, p.difficulty)
           THEN /\ result_queue' = [result_queue EXCEPT ![n] = Append(@, <<hash_attempt, p.nonce>>)]
                /\ miner_process' = [miner_process EXCEPT ![n] = NoMiner]
           ELSE /\ miner_process' = [miner_process EXCEPT ![n].nonce = @ + 1]
                /\ UNCHANGED result_queue
    /\ UNCHANGED <<mempool, mempool_lock, last_block_index, last_block_hash, ledger,
                   stop_mining_event, inbox, nt_threads, nb_threads, cpc, cblk, now,
                   online, node_id, nodes_table, key_files, nb_warning, sm_threads, orphans, gwVars, appVars>>

\* hashing_process: one iteration of the nonce loop.
hashing_process(n) ==
    /\ miner_process[n].alive
    /\ LET p == miner_process[n]
           hash_attempt == Sha256(p.data, p.nonce)
       IN  IF stop_mining_event[n]
           THEN /\ miner_process' = [miner_process EXCEPT ![n] = NoMiner]
                /\ UNCHANGED result_queue
           ELSE IF StartsWithTarget(hash_attempt, p.difficulty)
           THEN /\ result_queue' = [result_queue EXCEPT ![n] = Append(@, <<hash_attempt, p.nonce>>)]
                /\ miner_process' = [miner_process EXCEPT ![n] = NoMiner]
           ELSE /\ miner_process' = [miner_process EXCEPT ![n].nonce = @ + 1]
                /\ UNCHANGED result_queue
    /\ UNCHANGED <<mempool, mempool_lock, last_block_index, last_block_hash, ledger,
                   stop_mining_event, inbox, nt_threads, nb_threads, cpc, cblk, now,
                   online, node_id, nodes_table, key_files, nb_warning, sm_threads, orphans, gwVars, appVars>>

\* The block _on_block_mined builds for a mining result.
MinedBlock(n, block_hash, nonce, tx) ==
    [index |-> last_block_index[n] + 1, timestamp |-> now, prev_hash |-> last_block_hash[n],
     current_hash |-> block_hash, nonce |-> nonce, miner_id |-> n,
     signature |-> sign_data(n, block_hash), public_key_pem |-> n, tx |-> tx]

\* result_collector takes a result; _on_block_mined pops the mempool head and reads the tip.
OnBlockMined_Pop(n) ==
    /\ cpc[n] = "poll"
    /\ result_queue[n] # <<>>
    /\ mempool_lock[n] = "free"
    /\ result_queue' = [result_queue EXCEPT ![n] = Tail(@)]
    /\ IF mempool[n] = <<>>
       THEN UNCHANGED <<mempool, cpc, cblk>>
       ELSE /\ mempool' = [mempool EXCEPT ![n] = Tail(@)]
            /\ cblk' = [cblk EXCEPT ![n] =
                   MinedBlock(n, Head(result_queue[n])[1], Head(result_queue[n])[2], Head(mempool[n]))]
            /\ cpc' = [cpc EXCEPT ![n] = "insert"]
    /\ UNCHANGED <<mempool_lock, last_block_index, last_block_hash, ledger, stop_mining_event,
                   miner_process, inbox, nt_threads, nb_threads, now, online, node_id, nodes_table, key_files, nb_warning, sm_threads, orphans, gwVars, appVars>>

\* A completion that goes on after a failed ledger write
OnBlockMined_Insert_NoAbort(n) ==
    /\ cpc[n] = "insert"
    /\ IF IndexTaken(n, cblk[n].index)
       THEN UNCHANGED ledger
       ELSE ledger' = [ledger EXCEPT ![n] = @ \cup {Row(cblk[n])}]
    /\ cpc' = [cpc EXCEPT ![n] = "tip_index"]
    /\ UNCHANGED <<mempool, mempool_lock, last_block_index, last_block_hash, stop_mining_event,
                   result_queue, miner_process, inbox, nt_threads, nb_threads, cblk, now, online, node_id, nodes_table, key_files,
                   nb_warning, sm_threads, orphans, gwVars, appVars>>

\* _on_block_mined: the ledger write; a failed write aborts the completion.
OnBlockMined_Insert(n) ==
    /\ cpc[n] = "insert"
    /\ IF IndexTaken(n, cblk[n].index)
       THEN /\ cpc' = [cpc EXCEPT ![n] = "poll"]
            /\ cblk' = [cblk EXCEPT ![n] = NoBlock]
            /\ UNCHANGED ledger
       ELSE /\ ledger' = [ledger EXCEPT ![n] = @ \cup {Row(cblk[n])}]
            /\ cpc' = [cpc EXCEPT ![n] = "tip_index"]
            /\ UNCHANGED cblk
    /\ UNCHANGED <<mempool, mempool_lock, last_block_index, last_block_hash, stop_mining_event,
                   result_queue, miner_process, inbox, nt_threads, nb_threads, now, online, node_id, nodes_table, key_files, nb_warning, sm_threads, orphans,
                   gwVars, appVars>>

\* self.last_block_index = block_index
OnBlockMined_TipIndex(n) ==
    /\ cpc[n] = "tip_index"
    /\ last_block_index' = [last_block_index EXCEPT ![n] = cblk[n].index]
    /\ cpc' = [cpc EXCEPT ![n] = "tip_hash"]
    /\ UNCHANGED <<mempool, mempool_lock, last_block_hash, ledger, stop_mining_event,
                   result_queue, miner_process, inbox, nt_threads, nb_threads, cblk, now,
                   online, node_id, nodes_table, key_files, nb_warning, sm_threads, orphans, gwVars, appVars>>

\* self.last_block_hash = block_hash
OnBlockMined_TipHash(n) ==
    /\ cpc[n] = "tip_hash"
    /\ last_block_hash' = [last_block_hash EXCEPT ![n] = cblk[n].current_hash]
    /\ cpc' = [cpc EXCEPT ![n] = "broadcast"]
    /\ UNCHANGED <<mempool, mempool_lock, last_block_index, ledger, stop_mining_event,
                   result_queue, miner_process, inbox, nt_threads, nb_threads, cblk, now,
                   online, node_id, nodes_table, key_files, nb_warning, sm_threads, orphans, gwVars, appVars>>

\* _broadcast_block: new_block to every known node (a send to a node that is not
\* running fails and is skipped)
BroadcastBlock(n) ==
    /\ cpc[n] = "broadcast"
    /\ inbox' = [p \in Nodes |-> IF p \in known_nodes(n) \cap online
                                 THEN inbox[p] \cup {NewBlockMsg(cblk[n])} ELSE inbox[p]]
    /\ cpc' = [cpc EXCEPT ![n] = "confirm"]
    /\ UNCHANGED <<mempool, mempool_lock, last_block_index, last_block_hash, ledger,
                   stop_mining_event, result_queue, miner_process, nt_threads, nb_threads,
                   cblk, now, online, node_id, nodes_table, key_files, nb_warning, sm_threads, orphans, gwVars, appVars>>

Confirmation(b) == [block_index |-> b.index, block_hash |-> b.current_hash,
                    miner_id |-> b.miner_id, timestamp |-> b.timestamp, tx |-> b.tx]

\* _send_block_confirmation: block_confirmation to the gateway
SendBlockConfirmation(n) ==
    /\ cpc[n] = "confirm"
    /\ gw_inbox' = gw_inbox \cup {Confirmation(cblk[n])}
    /\ cpc' = [cpc EXCEPT ![n] = "next"]
    /\ UNCHANGED <<mempool, mempool_lock, last_block_index, last_block_hash, ledger,
                   stop_mining_event, result_queue, miner_process, inbox, nt_threads,
                   nb_threads, cblk, now, online, node_id, nodes_table, key_files, nb_warning, sm_threads, orphans, gw_blocks, conf_inbox, resends,
                   gw_replies, appVars, attempts>>

\* _on_block_mined, "start mining next tx if any": takes mempool_lock and, with the
\* mempool non-empty, calls _start_mining_if_needed, which returns at once when a miner
\* is alive and otherwise takes mempool_lock again (threading.Lock is not reentrant).
OnBlockMined_Next(n) ==
    /\ cpc[n] = "next"
    /\ mempool_lock[n] = "free"
    /\ cblk' = [cblk EXCEPT ![n] = NoBlock]
    /\ IF mempool[n] # <<>> /\ ~miner_process[n].alive
       THEN /\ mempool_lock' = [mempool_lock EXCEPT ![n] = "collector"]
            /\ cpc' = [cpc EXCEPT ![n] = "blocked"]
       ELSE /\ cpc' = [cpc EXCEPT ![n] = "poll"]
            /\ UNCHANGED mempool_lock
    /\ UNCHANGED <<mempool, last_block_index, last_block_hash, ledger, stop_mining_event,
                   result_queue, miner_process, inbox, nt_threads, nb_threads, now, online, node_id, nodes_table, key_files, nb_warning, sm_threads, orphans,
                   gwVars, appVars>>

\* A validation that skips the proof-of-work check
ValidNewBlock_NoPoW(n, p) ==
    /\ p.public_key_pem # ""
    /\ verify_signature(p.public_key_pem, p.current_hash, p.signature)
    /\ p.index = last_block_index[n] + 1
    /\ p.prev_hash = last_block_hash[n]

\* A validation that skips the two chain checks
ValidNewBlock_NoChain(n, p) ==
    /\ p.public_key_pem # ""
    /\ StartsWithTarget(p.current_hash, difficulty)
    /\ verify_signature(p.public_key_pem, p.current_hash, p.signature)

\* A validation that skips the signature check
ValidNewBlock_NoSignature(n, p) ==
    /\ p.public_key_pem # ""
    /\ StartsWithTarget(p.current_hash, difficulty)
    /\ p.index = last_block_index[n] + 1
    /\ p.prev_hash = last_block_hash[n]

\* _handle_new_block: the validation of an inbound block against the node's tip
ValidNewBlock(n, p) ==
    /\ p.public_key_pem # ""
    /\ StartsWithTarget(p.current_hash, difficulty)
    /\ verify_signature(p.public_key_pem, p.current_hash, p.signature)
    /\ p.index = last_block_index[n] + 1
    /\ p.prev_hash = last_block_hash[n]

\* The nonce at which the miner's loop stops for the data d
WinningNonce(d) == (d.timestamp + d.index + d.tx) % (MaxNonce + 1)

\* A block for index 0 as a peer p mines and signs it for the first transaction
PeerBlock(p) ==
    LET d == [prev_hash |-> ZeroHash, timestamp |-> 0, index |-> 0, tx |-> 1]
        h == Sha256(d, WinningNonce(d))
    IN  [index |-> 0, timestamp |-> 0, prev_hash |-> ZeroHash, current_hash |-> h,
         nonce |-> WinningNonce(d), miner_id |-> p, signature |-> sign_data(p, h),
         public_key_pem |-> p, tx |-> 1]

\* The payloads a sender can put into a new_block message: the peer's block and
\* copies of it with one field spoilt
Payloads(p) ==
    LET b == PeerBlock(p)
        weak == Sha256([prev_hash |-> ZeroHash, timestamp |-> 0, index |-> 0, tx |-> 1],
                       WinningNonce([timestamp |-> 0, index |-> 0, tx |-> 1]) + 1)
    IN  { b,
          [b EXCEPT !.public_key_pem = ""],
          [b EXCEPT !.current_hash = weak, !.signature = sign_data(p, weak)],
          [b EXCEPT !.signature = sign_data("mallory", b.current_hash)],
          [b EXCEPT !.index = 1],
          [b EXCEPT !.prev_hash = b.current_hash] }

\* _handle_p2p_connection: the listener accepts a connection carrying a new_block
\* from any sender
ReceiveNewBlock(n) ==
    /\ n \in online
    /\ \A m \in inbox[n] : m.type # "new_block"
    /\ \E p \in known_nodes(n) : \E b \in Payloads(p) :
          inbox' = [inbox EXCEPT ![n] = @ \cup {NewBlockMsg(b)}]
    /\ UNCHANGED <<mempool, mempool_lock, last_block_index, last_block_hash, ledger,
                   stop_mining_event, result_queue, miner_process, nt_threads, nb_threads,
                   cpc, cblk, now, online, node_id, nodes_table, key_files, nb_warning, sm_threads, orphans, gwVars, appVars>>

\* The head of the mempool, 0 when it is empty.
MempoolHead(n) == IF mempool[n] = <<>> THEN 0 ELSE Head(mempool[n])

\* _handle_new_block: the warning logged for the first check that p fails
FirstFailure(n, p) ==
    IF p.public_key_pem = "" THEN "missing public_key_pem"
    ELSE IF ~StartsWithTarget(p.current_hash, difficulty) THEN "PoW"
    ELSE IF ~verify_signature(p.public_key_pem, p.current_hash, p.signature) THEN "signature"
    ELSE IF p.index # last_block_index[n] + 1 THEN "index"
    ELSE IF p.prev_hash # last_block_hash[n] THEN "prev_hash mismatch"
    ELSE "DB write failed"

\* _handle_new_block up to the ledger write: a block that fails validation, or whose
\* insert fails, is dropped.
HandleNewBlock(n) ==
    \E m \in inbox[n] :
        /\ m.type = "new_block"
        /\ inbox' = [inbox EXCEPT ![n] = @ \ {m}]
        /\ IF ValidNewBlock(n, m.data) /\ ~IndexTaken(n, m.data.index)
           THEN /\ ledger' = [ledger EXCEPT ![n] = @ \cup {Row(m.data)}]
                /\ nb_threads' = [nb_threads EXCEPT ![n] =
                                     @ \cup {[pc |-> "tip_index", blk |-> m.data,
                                              head |-> MempoolHead(n)]}]
                /\ UNCHANGED nb_warning
           ELSE /\ nb_warning' = [nb_warning EXCEPT ![n] = FirstFailure(n, m.data)]
                /\ UNCHANGED <<ledger, nb_threads>>
        /\ UNCHANGED <<mempool, mempool_lock, last_block_index, last_block_hash,
                       stop_mining_event, result_queue, miner_process, nt_threads,
                       cpc, cblk, now, online, node_id, nodes_table, key_files, sm_threads, orphans, gwVars, appVars>>

\* self.last_block_index = block_index
HandleNewBlock_TipIndex(n) ==
    \E th \in nb_threads[n] :
        /\ th.pc = "tip_index"
        /\ last_block_index' = [last_block_index EXCEPT ![n] = th.blk.index]
        /\ nb_threads' = [nb_threads EXCEPT ![n] = (@ \ {th}) \cup {[th EXCEPT !.pc = "tip_hash"]}]
        /\ UNCHANGED <<mempool, mempool_lock, last_block_hash, ledger, stop_mining_event,
                       result_queue, miner_process, inbox, nt_threads, cpc, cblk, now, online, node_id, nodes_table, key_files, nb_warning, sm_threads, orphans,
                       gwVars, appVars>>

\* self.last_block_hash = current_hash
HandleNewBlock_TipHash(n) ==
    \E th \in nb_threads[n] :
        /\ th.pc = "tip_hash"
        /\ last_block_hash' = [last_block_hash EXCEPT ![n] = th.blk.current_hash]
        /\ nb_threads' = [nb_threads EXCEPT ![n] = (@ \ {th}) \cup {[th EXCEPT !.pc = "stop"]}]
        /\ UNCHANGED <<mempool, mempool_lock, last_block_index, ledger, stop_mining_event,
                       result_queue, miner_process, inbox, nt_threads, cpc, cblk, now, online, node_id, nodes_table, key_files, nb_warning, sm_threads, orphans,
                       gwVars, appVars>>

\* _stop_mining("new_block"): sets the stop event; the handler thread ends.
HandleNewBlock_StopMining(n) ==
    \E th \in nb_threads[n] :
        /\ th.pc = "stop"
        /\ stop_mining_event' = [stop_mining_event EXCEPT ![n] = TRUE]
        /\ nb_threads' = [nb_threads EXCEPT ![n] = @ \ {th}]
        /\ UNCHANGED <<mempool, mempool_lock, last_block_index, last_block_hash, ledger,
                       result_queue, miner_process, inbox, nt_threads, cpc, cblk, now, online, node_id, nodes_table, key_files, nb_warning, sm_threads, orphans,
                       gwVars, appVars>>

\* What a node does on its own: NEW_TRANSACTION handlers, the miner, the collector.
MiningStep(n) ==
    \/ HandleNewTransaction(n)
    \/ StartMiningIfNeeded(n)
    \/ hashing_process(n)
    \/ OnBlockMined_Pop(n)
    \/ OnBlockMined_Insert(n)
    \/ OnBlockMined_TipIndex(n)
    \/ OnBlockMined_TipHash(n)
    \/ BroadcastBlock(n)
    \/ SendBlockConfirmation(n)
    \/ OnBlockMined_Next(n)

\* The new_block handler threads.
GossipStep(n) ==
    \/ HandleNewBlock(n)
    \/ HandleNewBlock_TipIndex(n)
    \/ HandleNewBlock_TipHash(n)
    \/ HandleNewBlock_StopMining(n)

NodeInit ==
    /\ mempool = [n \in Nodes |-> <<>>]
    /\ mempool_lock = [n \in Nodes |-> "free"]
    /\ last_block_index = [n \in Nodes |-> -1]
    /\ last_block_hash = [n \in Nodes |-> ZeroHash]
    /\ ledger = [n \in Nodes |-> {}]
    /\ stop_mining_event = [n \in Nodes |-> FALSE]
    /\ result_queue = [n \in Nodes |-> <<>>]
    /\ miner_process = [n \in Nodes |-> NoMiner]
    /\ inbox = [n \in Nodes |-> {}]
    /\ nt_threads = [n \in Nodes |-> 0]
    /\ nb_threads = [n \in Nodes |-> {}]
    /\ cpc = [n \in Nodes |-> "poll"]
    /\ cblk = [n \in Nodes |-> NoBlock]
    /\ now = 0
    /\ nb_warning = [n \in Nodes |-> ""]
    /\ sm_threads = [n \in Nodes |-> 0]
    /\ orphans = [n \in Nodes |-> {}]
    /\ node_id = [n \in Nodes |-> FirstUuid(n)]
    /\ nodes_table = {[node_id |-> FirstUuid(n), port |-> n] : n \in Nodes}
    /\ key_files = {FirstUuid(n) : n \in Nodes}

AllOnline == online = Nodes
\* ================================================================= gateway
\* NODE_PORTS in the order of the configuration
NodePortSeq == <<"n1", "n2">>

RECURSIVE Sends_StopAtFailure(_)
\* A loop over NODE_PORTS that ends at the first send that fails
Sends_StopAtFailure(i) ==
    IF i > Len(NodePortSeq) THEN [success |-> 0, reached |-> {}, tried |-> <<>>]
    ELSE IF NodePortSeq[i] \in online
         THEN [success |-> Sends_StopAtFailure(i + 1).success + 1,
               reached |-> Sends_StopAtFailure(i + 1).reached \cup {NodePortSeq[i]},
               tried |-> <<[port |-> NodePortSeq[i], ok |-> TRUE]>>
                             \o Sends_StopAtFailure(i + 1).tried]
         ELSE [success |-> 0, reached |-> {},
               tried |-> <<[port |-> NodePortSeq[i], ok |-> FALSE]>>]

RECURSIVE Sends(_)
\* broadcast_transaction, the loop over NODE_PORTS from position i: a send to a node
\* that is not running raises, is logged, and the loop goes on
Sends(i) ==
    IF i > Len(NodePortSeq) THEN [success |-> 0, reached |-> {}, tried |-> <<>>]
    ELSE IF NodePortSeq[i] \in online
         THEN [success |-> Sends(i + 1).success + 1,
               reached |-> Sends(i + 1).reached \cup {NodePortSeq[i]},
               tried |-> <<[port |-> NodePortSeq[i], ok |-> TRUE]>> \o Sends(i + 1).tried]
         ELSE [success |-> Sends(i + 1).success,
               reached |-> Sends(i + 1).reached,
               tried |-> <<[port |-> NodePortSeq[i], ok |-> FALSE]>> \o Sends(i + 1).tried]

\* broadcast_transaction: NEW_TRANSACTION to every port of NODE_PORTS; the count of
\* the sends that succeeded.
broadcast_transaction(t) == [p \in Nodes |-> IF p \in Sends(1).reached
                                             THEN inbox[p] \cup {NewTransactionMsg(t)}
                                             ELSE inbox[p]]
nodes_reached == Sends(1).success

\* broadcast_transaction: the connects made for transaction t, in the order of the loop
Connects(t) == [j \in 1..Len(Sends(1).tried) |->
                   [tx |-> t, port |-> Sends(1).tried[j].port, ok |-> Sends(1).tried[j].ok]]

\* The reply to a submission: status, nodes_reached
Reply(t) == [tx |-> t, nodes_reached |-> nodes_reached,
             status |-> IF nodes_reached > 0 THEN "submitted" ELSE "failed"]

\* main.handle, submit_transaction: a client sends a transaction without tx_id
SubmitTransaction(t) ==
    /\ \A r \in gw_replies : r.tx # t
    /\ \A u \in 1..MaxSubmit : u < t => \E r \in gw_replies : r.tx = u
    /\ inbox' = broadcast_transaction(t)
    /\ gw_replies' = gw_replies \cup {Reply(t)}
    /\ attempts' = attempts \o Connects(t)
    /\ UNCHANGED <<mempool, mempool_lock, last_block_index, last_block_hash, ledger,
                   stop_mining_event, result_queue, miner_process, nt_threads,
                   nb_threads, cpc, cblk, now, online, node_id, nodes_table, key_files, nb_warning, sm_threads, orphans, gw_inbox, gw_blocks, conf_inbox,
                   resends, appVars>>

\* main.handle, block_confirmation branch: _record_block_confirmation (INSERT OR
\* IGNORE by block_hash), then notify_server.
GatewayBlockConfirmation ==
    \E c \in gw_inbox :
        /\ gw_inbox' = gw_inbox \ {c}
        /\ gw_blocks' = IF \E d \in gw_blocks : d.block_hash = c.block_hash
                        THEN gw_blocks ELSE gw_blocks \cup {c}
        /\ conf_inbox' = Append(conf_inbox, c)
        /\ UNCHANGED <<nodeVars, resends, gw_replies, appVars, attempts>>

\* handle: the listener accepts any connection; a block_confirmation it has handled
\* before arrives once more
ResendBlockConfirmation ==
    \E c \in gw_blocks :
        /\ resends < MaxResend
        /\ c \notin gw_inbox
        /\ gw_inbox' = gw_inbox \cup {c}
        /\ resends' = resends + 1
        /\ UNCHANGED <<nodeVars, gw_blocks, conf_inbox, gw_replies, appVars, attempts>>

\* ============================================================ wallet store
Price == 25
Seller == "bob"
Asset == "deer"

\* The data of a purchase transaction as the gateway builds it (tx_payload).
TxData(t) == [tx_id |-> t, from |-> "alice", to |-> Seller, amount |-> Price, asset_id |-> Asset]

\* MarketplaceDB.transfer: [ok, msg, wallets] for wallets w.
transfer(w, from_user, to_user, amount) ==
    IF amount <= 0 THEN [ok |-> FALSE, msg |-> "Amount must be positive", wallets |-> w]
    ELSE IF from_user \notin DOMAIN w THEN [ok |-> FALSE, msg |-> "Wallet not found", wallets |-> w]
    ELSE IF to_user \notin DOMAIN w THEN [ok |-> FALSE, msg |-> "Wallet not found", wallets |-> w]
    ELSE IF w[from_user] < amount THEN [ok |-> FALSE, msg |-> "Insufficient balance", wallets |-> w]
    ELSE [ok |-> TRUE, msg |-> "Transferred",
          wallets |-> [[w EXCEPT ![from_user] = w[from_user] - amount]
                          EXCEPT ![to_user] = w[to_user] + amount]]

\* The handler of transfer leaves the uncommitted writes in place
Rollback_Keep(snapshot, working) == working

\* cursor.execute("ROLLBACK") in the exception handler of transfer: the database is
\* again what it was at BEGIN IMMEDIATE
Rollback(snapshot, working) == snapshot

\* The statements of transfer at which sqlite can raise
Faults == {"begin", "debit", "credit", "commit"}

\* MarketplaceDB.transfer when the statement `at` raises: the returns that come before
\* that statement are taken as in transfer; otherwise the writes made so far inside
\* the transaction are rolled back and the exception message is returned.
transfer_raising(w, from_user, to_user, amount, at) ==
    IF amount <= 0 THEN transfer(w, from_user, to_user, amount)
    ELSE IF at = "begin" THEN [ok |-> FALSE, msg |-> "exception", wallets |-> Rollback(w, w)]
    ELSE IF ~transfer(w, from_user, to_user, amount).ok
         THEN transfer(w, from_user, to_user, amount)
    ELSE LET debited == [w EXCEPT ![from_user] = w[from_user] - amount]
             credited == [debited EXCEPT ![to_user] = w[to_user] + amount]
             working == IF at = "debit" THEN w
                        ELSE IF at = "credit" THEN debited
                        ELSE credited
         IN  [ok |-> FALSE, msg |-> "exception", wallets |-> Rollback(w, working)]

\* ============================================================== app server
Terminal == {"confirmed", "failed", "timeout"}
NoRecord == [status |-> "none", message |-> "", notified |-> FALSE]

\* the emission test without the notified flag
ShouldEmit_IgnoreFlag(status, info) == status \in Terminal

\* _set_tx_status: whether this write emits the notifications
ShouldEmit(status, info) == status \in Terminal /\ ~info.notified

\* _set_tx_status(tx_id, status, message), with _emit_tx_notifications
SetTxStatus(t, status, message) ==
    LET info == tx_status[t]
        emit == ShouldEmit(status, info)
    IN  /\ tx_status' = [tx_status EXCEPT ![t] =
                [status |-> status, message |-> message, notified |-> info.notified \/ emit]]
        /\ emitted' = [emitted EXCEPT ![t] = @ + (IF emit THEN 1 ELSE 0)]
        /\ term_writes' = [term_writes EXCEPT ![t] = @ + (IF status \in Terminal THEN 1 ELSE 0)]
        \* a record created here gets created_at = now
        /\ expired' = IF info.status = "none" THEN [expired EXCEPT ![t] = FALSE] ELSE expired

\* handle_buy_asset: the checks of a BUY by an authenticated session of `buyer`,
\* without the test of the wallet balance
BuyAccepted_NoFundsCheck(buyer, amount) ==
    /\ buyer # asset_owner
    /\ ~(amount - Price > 0 \/ Price - amount > 0)
    /\ buyer \in DOMAIN wallets

\* handle_buy_asset: the checks of a BUY by an authenticated session of `buyer`
BuyAccepted(buyer, amount) ==
    /\ buyer # asset_owner
    /\ ~(amount - Price > 0 \/ Price - amount > 0)
    /\ buyer \in DOMAIN wallets
    /\ wallets[buyer] >= Price

\* A BUY|asset_id|username|amount on a session: is_authenticated, self.username
NoRequest == [is_authenticated |-> FALSE, session |-> "", asset_id |-> "", username |-> "",
              amount |-> 0, reply |-> ""]
BuyRequests == [is_authenticated : BOOLEAN, session : Users \cup {"carol"},
                asset_id : {Asset, "ghost"}, username : Users \cup {"carol"},
                amount : {Price, Price + 1}]

\* handle_buy_asset: the reply, the checks taken in the order of the code. The row
\* get_item_by_id returns has no is_listed key, so the listing test never rejects.
BuyReply(req) ==
    IF ~req.is_authenticated THEN "ERR03|Not authenticated"
    ELSE IF req.username # req.session THEN "ERR02|Cannot purchase on behalf of another user"
    ELSE IF req.asset_id # Asset THEN "ERR02|Asset not found"
    ELSE IF asset_owner = req.username THEN "ERR02|Cannot buy your own asset"
    ELSE IF req.amount - Price > 0 \/ Price - req.amount > 0 THEN "ERR02|Price mismatch"
    ELSE IF req.username \notin DOMAIN wallets THEN "ERR02|Wallet not found"
    ELSE IF wallets[req.username] < Price THEN "ERR02|Insufficient funds"
    ELSE "OK|PENDING"

\* The request with its reply
Handled(req, reply) ==
    [is_authenticated |-> req.is_authenticated, session |-> req.session,
     asset_id |-> req.asset_id, username |-> req.username, amount |-> req.amount,
     reply |-> reply]

\* handle_buy_asset: an accepted BUY mints a tx_id, records it queued and enqueues it
Buy(t) ==
    \E buyer \in Users, amount \in {Price, Price + 1} :
        /\ tx_status[t].status = "none"
        /\ \A u \in DOMAIN tx_status : u < t => tx_status[u].status # "none"
        /\ BuyAccepted(buyer, amount)
        /\ tx_status' = [tx_status EXCEPT ![t] =
                [status |-> "queued", message |-> "Queued for PoW", notified |-> FALSE]]
        /\ tx_queue' = Append(tx_queue, t)
        /\ buy_req' = Handled([is_authenticated |-> TRUE, session |-> buyer, asset_id |-> Asset,
                               username |-> buyer, amount |-> amount], "OK|PENDING")
        /\ UNCHANGED <<nodeVars, gwVars, wpc, wtx, wreply, to_timeout, gpc, expired,
                       wallets, emitted, transfers, term_writes, xfer, monitor_alive, asset_owner>>

\* handle_buy_asset: a BUY that one of the checks stops returns its error
BuyRejected ==
    \E req \in BuyRequests :
        /\ BuyReply(req) # "OK|PENDING"
        /\ buy_req' = Handled(req, BuyReply(req))
        /\ UNCHANGED <<nodeVars, gwVars, tx_status, tx_queue, wpc, wtx, wreply, to_timeout,
                       gpc, expired, wallets, emitted, transfers, term_writes, xfer,
                       monitor_alive, asset_owner>>

\* time.time() - created_at passes tx_timeout_seconds
Expire(t) ==
    /\ tx_status[t].status # "none"
    /\ ~expired[t]
    /\ expired' = [expired EXCEPT ![t] = TRUE]
    /\ UNCHANGED <<nodeVars, gwVars, tx_status, tx_queue, wpc, wtx, wreply, to_timeout, gpc,
                   wallets, emitted, transfers, term_writes, xfer, buy_req, monitor_alive, asset_owner>>

\* _tx_worker: tx_queue.get(), then the submit_purchase request goes to the gateway
WorkerGet ==
    /\ wpc = "idle"
    /\ tx_queue # <<>>
    /\ wtx' = Head(tx_queue)
    /\ tx_queue' = Tail(tx_queue)
    /\ wpc' = "call"
    /\ UNCHANGED <<nodeVars, gwVars, tx_status, wreply, to_timeout, gpc, expired,
                   wallets, emitted, transfers, term_writes, xfer, buy_req, monitor_alive, asset_owner>>

\* gateway main.handle, submit_purchase: broadcast, then the reply
GatewaySubmitPurchase ==
    /\ wpc = "call"
    /\ inbox' = broadcast_transaction(wtx)
    /\ wreply' = Reply(wtx).status
    /\ gw_replies' = gw_replies \cup {Reply(wtx)}
    /\ attempts' = attempts \o Connects(wtx)
    /\ wpc' = "reply"
    /\ UNCHANGED <<mempool, mempool_lock, last_block_index, last_block_hash, ledger,
                   stop_mining_event, result_queue, miner_process, nt_threads,
                   nb_threads, cpc, cblk, now, online, node_id, nodes_table, key_files, nb_warning, sm_threads, orphans, gw_inbox, gw_blocks, conf_inbox,
                   resends, tx_status, tx_queue, wtx,
                   to_timeout, gpc, expired, wallets, emitted, transfers, term_writes, xfer, buy_req, monitor_alive, asset_owner>>

\* _tx_worker: the reply read, the status written. A failed write that emits raises
\* the AttributeError of create_and_push_notification inside the try block: the
\* except clause catches it and writes failed a second time with its own message.
WorkerWrite ==
    /\ wpc = "reply"
    /\ IF wreply = "submitted"
       THEN SetTxStatus(wtx, "submitted", "Transaction submitted")
       ELSE IF ShouldEmit("failed", tx_status[wtx])
       THEN /\ tx_status' = [tx_status EXCEPT ![wtx] =
                   [status |-> "failed", message |-> "Gateway error", notified |-> TRUE]]
            /\ emitted' = [emitted EXCEPT ![wtx] = @ + 1]
            /\ term_writes' = [term_writes EXCEPT ![wtx] = @ + 2]
            /\ expired' = IF tx_status[wtx].status = "none"
                          THEN [expired EXCEPT ![wtx] = FALSE] ELSE expired
       ELSE SetTxStatus(wtx, "failed", "Transaction failed: no nodes reached")
    /\ wpc' = "idle"
    /\ wtx' = 0
    /\ wreply' = ""
    /\ UNCHANGED <<nodeVars, gwVars, tx_queue, to_timeout, gpc, wallets, transfers, xfer, buy_req, monitor_alive, asset_owner>>

\* _tx_worker: _submit_purchase_to_gateway raises (connect refused, or no reply
\* within the 10 s socket timeout) and the except clause writes failed. A write
\* that emits calls create_and_push_notification, whose self.db.create_notification
\* is no method of MarketplaceDB: the AttributeError is raised inside the except
\* clause, so nothing catches it; finally runs task_done and the thread ends.
WorkerGatewayError ==
    /\ wpc \in {"call", "reply"}
    /\ SetTxStatus(wtx, "failed", "Gateway error")
    /\ wpc' = IF ShouldEmit("failed", tx_status[wtx]) THEN "dead" ELSE "idle"
    /\ wtx' = 0
    /\ wreply' = ""
    /\ UNCHANGED <<nodeVars, gwVars, tx_queue, to_timeout, gpc, wallets, transfers, xfer, buy_req, monitor_alive, asset_owner>>

RECURSIVE ScanFrom(_)
\* _tx_timeout_worker: the scan under tx_status_lock (dict order is insertion order)
ScanFrom(t) ==
    IF t \notin DOMAIN tx_status THEN <<>>
    ELSE (IF tx_status[t].status \in {"queued", "submitted"} /\ expired[t] THEN <<t>> ELSE <<>>)
         \o ScanFrom(t + 1)

\* _tx_timeout_worker: one pass of the while loop, as long as the thread lives
TimeoutScan ==
    /\ monitor_alive
    /\ to_timeout = <<>>
    /\ ScanFrom(1) # <<>>
    /\ to_timeout' = ScanFrom(1)
    /\ UNCHANGED <<nodeVars, gwVars, tx_status, tx_queue, wpc, wtx, wreply, gpc, expired,
                   wallets, emitted, transfers, term_writes, xfer, buy_req, monitor_alive, asset_owner>>

\* _tx_timeout_worker: one write of the loop over to_timeout. A write that emits calls
\* create_and_push_notification, whose self.db.create_notification is no method of
\* MarketplaceDB: the AttributeError leaves _set_tx_status after the record is
\* written, nothing in the loop catches it, and the thread ends.
TimeoutWrite ==
    /\ to_timeout # <<>>
    /\ SetTxStatus(Head(to_timeout), "timeout", "PoW Timeout after 10 mins")
    /\ IF ShouldEmit("timeout", tx_status[Head(to_timeout)])
       THEN /\ monitor_alive' = FALSE
            /\ to_timeout' = <<>>
       ELSE /\ to_timeout' = Tail(to_timeout)
            /\ UNCHANGED monitor_alive
    /\ UNCHANGED <<nodeVars, gwVars, tx_queue, wpc, wtx, wreply, gpc, wallets, transfers, xfer, asset_owner,
                   buy_req>>

\* handle_get_tx_status: _get_tx_info, and the record is found queued or submitted
\* past the deadline
GetTxStatusRead(t) ==
    /\ ~gpc[t]
    /\ tx_status[t].status \in {"queued", "submitted"}
    /\ expired[t]
    /\ gpc' = [gpc EXCEPT ![t] = TRUE]
    /\ UNCHANGED <<nodeVars, gwVars, tx_status, tx_queue, wpc, wtx, wreply, to_timeout,
                   expired, wallets, emitted, transfers, term_writes, xfer, buy_req, monitor_alive, asset_owner>>

\* handle_get_tx_status: the lazy timeout write
GetTxStatusWrite(t) ==
    /\ gpc[t]
    /\ SetTxStatus(t, "timeout", "PoW Timeout after 10 mins")
    /\ gpc' = [gpc EXCEPT ![t] = FALSE]
    /\ UNCHANGED <<nodeVars, gwVars, tx_queue, wpc, wtx, wreply, to_timeout, wallets,
                   transfers, xfer, buy_req, monitor_alive, asset_owner>>

\* A consumer that writes the owner of the asset whether or not the transfer succeeded
ApplyTransaction_AlwaysOwner(data) ==
    LET r == transfer(wallets, data.from, data.to, data.amount)
    IN  /\ wallets' = r.wallets
        /\ xfer' = [from |-> data.from, to |-> data.to, amount |-> data.amount,
                    ok |-> r.ok, before |-> wallets, asset_id |-> data.asset_id,
                    owner_before |-> asset_owner, tx_id |-> data.tx_id]
        \* update_asset_owner(asset_id, to_user)
        /\ asset_owner' = IF data.asset_id = Asset THEN data.to ELSE asset_owner
        /\ IF data.tx_id = 0
           THEN UNCHANGED <<tx_status, emitted, term_writes, expired>>
           ELSE IF r.ok THEN SetTxStatus(data.tx_id, "confirmed", "Transaction confirmed")
           ELSE SetTxStatus(data.tx_id, "failed", r.msg)

\* _start_block_confirmation_listener: one transaction of a confirmation: the
\* transfer, then the status write when the transaction carries a tx_id (0: none)
ApplyTransaction(data) ==
    LET r == transfer(wallets, data.from, data.to, data.amount)
    IN  /\ wallets' = r.wallets
        /\ xfer' = [from |-> data.from, to |-> data.to, amount |-> data.amount,
                    ok |-> r.ok, before |-> wallets, asset_id |-> data.asset_id,
                    owner_before |-> asset_owner, tx_id |-> data.tx_id]
        \* update_asset_owner(asset_id, to_user)
        /\ asset_owner' = IF r.ok /\ data.asset_id = Asset THEN data.to ELSE asset_owner
        /\ IF data.tx_id = 0
           THEN UNCHANGED <<tx_status, emitted, term_writes, expired>>
           ELSE IF r.ok THEN SetTxStatus(data.tx_id, "confirmed", "Transaction confirmed")
           ELSE SetTxStatus(data.tx_id, "failed", r.msg)

\* _start_block_confirmation_listener, listen_loop: one confirmation consumed
ConsumeConfirmation ==
    /\ conf_inbox # <<>>
    /\ conf_inbox' = Tail(conf_inbox)
    /\ ApplyTransaction(TxData(Head(conf_inbox).tx))
    /\ transfers' = Append(transfers,
           [block_hash |-> Head(conf_inbox).block_hash, tx_id |-> Head(conf_inbox).tx,
            ok |-> transfer(wallets, TxData(Head(conf_inbox).tx).from,
                            TxData(Head(conf_inbox).tx).to,
                            TxData(Head(conf_inbox).tx).amount).ok])
    /\ UNCHANGED <<nodeVars, gw_inbox, gw_blocks, resends, gw_replies, tx_queue, wpc, wtx,
                   wreply, to_timeout, gpc, buy_req, monitor_alive, attempts>>

NoXfer == [from |-> "", to |-> "", amount |-> 0, ok |-> FALSE, before |-> [u \in Users |-> 0],
           asset_id |-> "", owner_before |-> "", tx_id |-> 0]

\* seed_alice_bob
SeedWallets == wallets = [u \in Users |-> IF u = "alice" THEN 100 ELSE 0]

AppInit ==
    /\ tx_status = [t \in TxIds |-> NoRecord]
    /\ tx_queue = <<>>
    /\ wpc = "idle"
    /\ wtx = 0
    /\ wreply = ""
    /\ to_timeout = <<>>
    /\ gpc = [t \in TxIds |-> FALSE]
    /\ expired = [t \in TxIds |-> FALSE]
    /\ emitted = [t \in TxIds |-> 0]
    /\ transfers = <<>>
    /\ term_writes = [t \in TxIds |-> 0]
    /\ xfer = NoXfer
    /\ buy_req = NoRequest
    /\ monitor_alive = TRUE
    /\ asset_owner = Seller

GwInit ==
    /\ gw_inbox = {}
    /\ gw_blocks = {}
    /\ conf_inbox = <<>>
    /\ resends = 0
    /\ gw_replies = {}
    /\ attempts = <<>>

\* ========================================================== specifications
\* The whole pipeline, every node running, within the purchase deadline.
Init == NodeInit /\ GwInit /\ AppInit /\ SeedWallets /\ AllOnline

PipelineStep ==
    \/ \E t \in DOMAIN tx_status : Buy(t)
    \/ WorkerGet
    \/ GatewaySubmitPurchase
    \/ WorkerWrite
    \/ GatewayBlockConfirmation
    \/ ConsumeConfirmation

TimeoutStep ==
    \/ \E t \in DOMAIN tx_status : Expire(t)
    \/ TimeoutScan
    \/ TimeoutWrite
    \/ \E t \in DOMAIN tx_status : GetTxStatusRead(t)
    \/ \E t \in DOMAIN tx_status : GetTxStatusWrite(t)

Next ==
    \/ \E n \in Nodes : MiningStep(n)
    \/ \E n \in Nodes : GossipStep(n)
    \/ Tick
    \/ PipelineStep

Spec == Init /\ [][Next]_vars

\* The status map with all its writers; at most one node is running. The age of a
\* status record is carried by expired (Expire); the clock of the block timestamps
\* stands still.
InitStatus == NodeInit /\ GwInit /\ AppInit /\ SeedWallets /\ online \in {{}, {"n1"}}

NextStatus ==
    \/ \E n \in Nodes : MiningStep(n)
    \/ PipelineStep
    \/ WorkerGatewayError
    \/ TimeoutStep

SpecStatus == InitStatus /\ [][NextStatus]_vars

\* The status map with every thread scheduled fairly (submission worker, timeout
\* monitor, gateway, confirmation listener, the nodes, a GET_TX_STATUS handler that
\* has read the record) and time that passes; nothing is assumed of when clients poll.
Worker == WorkerGet \/ GatewaySubmitPurchase \/ WorkerWrite \/ WorkerGatewayError
Monitor == TimeoutScan \/ TimeoutWrite
SpecStatusFair ==
    /\ SpecStatus
    /\ WF_vars(Worker)
    /\ WF_vars(Monitor)
    /\ WF_vars(GatewayBlockConfirmation)
    /\ WF_vars(ConsumeConfirmation)
    /\ \A n \in Nodes : WF_vars(MiningStep(n))
    /\ \A t \in TxIds : WF_vars(Expire(t)) /\ WF_vars(GetTxStatusWrite(t))

\* The pipeline with one node running and confirmations that arrive again.
NextResend ==
    \/ \E n \in Nodes : MiningStep(n)
    \/ Tick
    \/ PipelineStep
    \/ ResendBlockConfirmation

SpecResend == InitStatus /\ [][NextResend]_vars

\* One node and the gateway on their own: clients submit transactions directly.
InitNode == NodeInit /\ GwInit /\ AppInit /\ SeedWallets /\ online = {"n1"}

NextNode ==
    \/ \E n \in Nodes : MiningStep(n)
    \/ Tick
    \/ \E t \in 1..MaxSubmit : SubmitTransaction(t)

SpecNode == InitNode /\ [][NextNode]_vars

\* One node that is sent one transaction and also receives new_block messages from
\* outside.
NextInject ==
    \/ \E n \in Nodes : MiningStep(n)
    \/ \E n \in Nodes : GossipStep(n)
    \/ \E n \in Nodes : ReceiveNewBlock(n)
    \/ SubmitTransaction(1)

SpecInject == InitNode /\ [][NextInject]_vars

\* The block a peer p mines and signs at index i over the digest prev at time ts; it
\* seals the transaction numbered 100 + i.
BlockOn(prev, i, ts, p) ==
    LET d == [prev_hash |-> prev, timestamp |-> ts, index |-> i, tx |-> 100 + i]
        h == Sha256(d, WinningNonce(d))
    IN  [index |-> i, timestamp |-> ts, prev_hash |-> prev, current_hash |-> h,
         nonce |-> WinningNonce(d), miner_id |-> p, signature |-> sign_data(p, h),
         public_key_pem |-> p, tx |-> 100 + i]

\* The chain the node holds at start: blocks 0..TipIndex, each linked to the one before.
RECURSIVE Chain(_)
Chain(i) == BlockOn(IF i = 0 THEN ZeroHash ELSE Chain(i - 1).current_hash, i, 0, "n2")

\* The valid blocks of the next index, and the valid blocks that build on one of them.
NextBlocks == { BlockOn(Chain(TipIndex).current_hash, TipIndex + 1, ts, "n2") : ts \in 0..MaxClock }
AfterNext == UNION { { BlockOn(b.current_hash, TipIndex + 2, ts, "n2") : ts \in 0..MaxClock } :
                     b \in NextBlocks }

\* The listener accepts a connection carrying one of these blocks, at any time and any
\* number of times; at most two connections wait for their handler.
ReceiveChainBlock(n) ==
    /\ n \in online
    /\ Cardinality(inbox[n]) < 2
    /\ \E b \in NextBlocks \cup AfterNext :
          inbox' = [inbox EXCEPT ![n] = @ \cup {NewBlockMsg(b)}]
    /\ UNCHANGED <<mempool, mempool_lock, last_block_index, last_block_hash, ledger,
                   stop_mining_event, result_queue, miner_process, nt_threads, nb_threads,
                   cpc, cblk, now, online, node_id, nodes_table, key_files, nb_warning, sm_threads, orphans, gwVars, appVars>>

\* One node whose ledger holds blocks 0..TipIndex and that receives blocks of the next
\* two indexes in any order.
InitChain ==
    /\ mempool = [n \in Nodes |-> <<>>]
    /\ mempool_lock = [n \in Nodes |-> "free"]
    /\ last_block_index = [n \in Nodes |-> IF n = "n1" THEN TipIndex ELSE -1]
    /\ last_block_hash = [n \in Nodes |-> IF n = "n1" THEN Chain(TipIndex).current_hash
                                                      ELSE ZeroHash]
    /\ ledger = [n \in Nodes |-> IF n = "n1" THEN { Row(Chain(i)) : i \in 0..TipIndex } ELSE {}]
    /\ stop_mining_event = [n \in Nodes |-> FALSE]
    /\ result_queue = [n \in Nodes |-> <<>>]
    /\ miner_process = [n \in Nodes |-> NoMiner]
    /\ inbox = [n \in Nodes |-> {}]
    /\ nt_threads = [n \in Nodes |-> 0]
    /\ nb_threads = [n \in Nodes |-> {}]
    /\ cpc = [n \in Nodes |-> "poll"]
    /\ cblk = [n \in Nodes |-> NoBlock]
    /\ now = 0
    /\ nb_warning = [n \in Nodes |-> ""]
    /\ sm_threads = [n \in Nodes |-> 0]
    /\ orphans = [n \in Nodes |-> {}]
    /\ node_id = [n \in Nodes |-> FirstUuid(n)]
    /\ nodes_table = {[node_id |-> FirstUuid(n), port |-> n] : n \in Nodes}
    /\ key_files = {FirstUuid(n) : n \in Nodes}
    /\ GwInit /\ AppInit /\ SeedWallets /\ online = {"n1"}

NextChain ==
    \/ \E n \in Nodes : ReceiveChainBlock(n)
    \/ \E n \in Nodes : GossipStep(n)

SpecChain == InitChain /\ [][NextChain]_vars

\* Several purchases of the asset, accepted while earlier ones are still pending, go
\* through one running node; the buyers' wallets are what earlier runs left them.
InitPurchases ==
    /\ NodeInit /\ GwInit
    /\ tx_status = [t \in 1..MaxBuy |-> NoRecord]
    /\ tx_queue = <<>>
    /\ wpc = "idle"
    /\ wtx = 0
    /\ wreply = ""
    /\ to_timeout = <<>>
    /\ gpc = [t \in 1..MaxBuy |-> FALSE]
    /\ expired = [t \in 1..MaxBuy |-> FALSE]
    /\ emitted = [t \in 1..MaxBuy |-> 0]
    /\ transfers = <<>>
    /\ term_writes = [t \in 1..MaxBuy |-> 0]
    /\ xfer = NoXfer
    /\ buy_req = NoRequest
    /\ monitor_alive = TRUE
    /\ asset_owner = Seller
    /\ wallets \in [Users -> {0, Price, 4 * Price}]
    /\ online = {"n1"}

NextPurchases ==
    \/ \E n \in Nodes : MiningStep(n)
    \/ PipelineStep

SpecPurchases == InitPurchases /\ [][NextPurchases]_vars

\* ---- the ledger write statement by statement
\* get_node_db_connection opens a connection of its own for every write, and no lock
\* of the node guards the write. What orders the writes is the database file:
\* the INSERT INTO blocks of a connection starts its transaction and takes the
\* file's write lock, which it holds until conn.commit(); the INSERT of another
\* connection waits inside cursor.execute meanwhile, and raises "database is locked"
\* when sqlite3's timeout runs out first.
DbLocked(n) == cpc[n] = "commit" \/ \E th \in nb_threads[n] : th.pc = "commit"

\* The threads of node n that are inside the write: between the call of the first
\* cursor.execute and the return of conn.commit().
InWrite(n) == {th \in nb_threads[n] : th.pc \in {"busy", "commit"}}
              \cup (IF cpc[n] \in {"busy", "commit"} THEN {"collector"} ELSE {})

\* _handle_new_block: the checks; a valid block goes on to the ledger write
HandleNewBlock_Check(n) ==
    \E m \in inbox[n] :
        /\ m.type = "new_block"
        /\ Cardinality(nb_threads[n]) < MaxHandlers
        /\ inbox' = [inbox EXCEPT ![n] = @ \ {m}]
        /\ IF ValidNewBlock(n, m.data)
           THEN /\ nb_threads' = [nb_threads EXCEPT ![n] =
                                     @ \cup {[pc |-> "insert", blk |-> m.data,
                                              head |-> MempoolHead(n)]}]
                /\ UNCHANGED nb_warning
           ELSE /\ nb_warning' = [nb_warning EXCEPT ![n] = FirstFailure(n, m.data)]
                /\ UNCHANGED nb_threads
        /\ UNCHANGED <<mempool, mempool_lock, last_block_index, last_block_hash, ledger,
                       stop_mining_event, result_queue, miner_process, nt_threads,
                       cpc, cblk, now, online, node_id, nodes_table, key_files, sm_threads, orphans, gwVars, appVars>>

\* _handle_new_block: cursor.execute(INSERT INTO blocks ...). With the file's write lock
\* free the statement runs (and fails on a taken "index"); otherwise the thread waits
\* inside it, until the lock is free or the timeout raises.
HandleNewBlock_Execute(n) ==
    \E th \in nb_threads[n] :
        /\ th.pc \in {"insert", "busy"}
        /\ \/ /\ ~DbLocked(n) /\ ~IndexTaken(n, th.blk.index)
              /\ nb_threads' = [nb_threads EXCEPT ![n] = (@ \ {th}) \cup {[th EXCEPT !.pc = "commit"]}]
              /\ UNCHANGED nb_warning
           \/ /\ ~DbLocked(n) /\ IndexTaken(n, th.blk.index)
              /\ nb_threads' = [nb_threads EXCEPT ![n] = @ \ {th}]
              /\ nb_warning' = [nb_warning EXCEPT ![n] = "DB write failed"]
           \/ /\ DbLocked(n) /\ th.pc = "insert"
              /\ nb_threads' = [nb_threads EXCEPT ![n] = (@ \ {th}) \cup {[th EXCEPT !.pc = "busy"]}]
              /\ UNCHANGED nb_warning
           \/ /\ DbLocked(n) /\ th.pc = "busy"
              /\ nb_threads' = [nb_threads EXCEPT ![n] = @ \ {th}]
              /\ nb_warning' = [nb_warning EXCEPT ![n] = "DB write failed"]
        /\ UNCHANGED <<mempool, mempool_lock, last_block_index, last_block_hash, ledger,
                       stop_mining_event, result_queue, miner_process, inbox, nt_threads,
                       cpc, cblk, now, online, node_id, nodes_table, key_files, sm_threads, orphans, gwVars, appVars>>

\* _handle_new_block: the transaction rows and conn.commit()
HandleNewBlock_Commit(n) ==
    \E th \in nb_threads[n] :
        /\ th.pc = "commit"
        /\ ledger' = [ledger EXCEPT ![n] = @ \cup {Row(th.blk)}]
        /\ nb_threads' = [nb_threads EXCEPT ![n] =
                             (@ \ {th}) \cup {[th EXCEPT !.pc = "tip_index", !.head = MempoolHead(n)]}]
        /\ UNCHANGED <<mempool, mempool_lock, last_block_index, last_block_hash,
                       stop_mining_event, result_queue, miner_process, inbox, nt_threads,
                       cpc, cblk, now, online, node_id, nodes_table, key_files, nb_warning, sm_threads, orphans, gwVars, appVars>>

\* _on_block_mined: cursor.execute(INSERT INTO blocks ...), as in _handle_new_block
OnBlockMined_Execute(n) ==
    /\ cpc[n] \in {"insert", "busy"}
    /\ \/ /\ ~DbLocked(n) /\ ~IndexTaken(n, cblk[n].index)
          /\ cpc' = [cpc EXCEPT ![n] = "commit"]
          /\ UNCHANGED cblk
       \/ /\ ~DbLocked(n) /\ IndexTaken(n, cblk[n].index)
          /\ cpc' = [cpc EXCEPT ![n] = "poll"]
          /\ cblk' = [cblk EXCEPT ![n] = NoBlock]
       \/ /\ DbLocked(n) /\ cpc[n] = "insert"
          /\ cpc' = [cpc EXCEPT ![n] = "busy"]
          /\ UNCHANGED cblk
       \/ /\ DbLocked(n) /\ cpc[n] = "busy"
          /\ cpc' = [cpc EXCEPT ![n] = "poll"]
          /\ cblk' = [cblk EXCEPT ![n] = NoBlock]
    /\ UNCHANGED <<mempool, mempool_lock, last_block_index, last_block_hash, ledger,
                   stop_mining_event, result_queue, miner_process, inbox, nt_threads,
                   nb_threads, now, online, node_id, nodes_table, key_files, nb_warning, sm_threads, orphans, gwVars, appVars>>

\* _on_block_mined: the transaction row and conn.commit()
OnBlockMined_Commit(n) ==
    /\ cpc[n] = "commit"
    /\ ledger' = [ledger EXCEPT ![n] = @ \cup {Row(cblk[n])}]
    /\ cpc' = [cpc EXCEPT ![n] = "tip_index"]
    /\ UNCHANGED <<mempool, mempool_lock, last_block_index, last_block_hash,
                   stop_mining_event, result_queue, miner_process, inbox, nt_threads,
                   nb_threads, cblk, now, online, node_id, nodes_table, key_files, nb_warning, sm_threads, orphans, gwVars, appVars>>

\* One node that is sent one transaction and receives new_block messages from outside,
\* its ledger writes taken statement by statement.
NextWrite ==
    \/ \E n \in Nodes :
          \/ HandleNewTransaction(n) \/ StartMiningIfNeeded(n) \/ hashing_process(n)
          \/ OnBlockMined_Pop(n) \/ OnBlockMined_Execute(n) \/ OnBlockMined_Commit(n)
          \/ OnBlockMined_TipIndex(n) \/ OnBlockMined_TipHash(n)
          \/ BroadcastBlock(n) \/ SendBlockConfirmation(n) \/ OnBlockMined_Next(n)
    \/ \E n \in Nodes :
          \/ HandleNewBlock_Check(n) \/ HandleNewBlock_Execute(n) \/ HandleNewBlock_Commit(n)
          \/ HandleNewBlock_TipIndex(n) \/ HandleNewBlock_TipHash(n)
          \/ HandleNewBlock_StopMining(n)
    \/ \E n \in Nodes : ReceiveNewBlock(n)
    \/ SubmitTransaction(1)

SpecWrite == InitNode /\ [][NextWrite]_vars

\* ---- _start_mining_if_needed statement by statement
\* _start_mining_if_needed: the test of the running miner under mining_lock, which
\* is released before anything is started.
StartMining_Check(n) ==
    /\ nt_threads[n] > 0
    /\ nt_threads' = [nt_threads EXCEPT ![n] = @ - 1]
    /\ IF miner_process[n].alive
       THEN UNCHANGED sm_threads
       ELSE sm_threads' = [sm_threads EXCEPT ![n] = @ + 1]
    /\ UNCHANGED <<mempool, mempool_lock, last_block_index, last_block_hash, ledger,
                   stop_mining_event, result_queue, miner_process, inbox, nb_threads,
                   cpc, cblk, now, online, node_id, nodes_table, key_files, nb_warning, orphans, gwVars, appVars>>

\* _start_mining_if_needed past the test: the mempool head under mempool_lock, the stop
\* event cleared, a new process assigned to self.miner_process and started. The
\* process self.miner_process referred to before goes on running.
StartMining_Start(n) ==
    /\ sm_threads[n] > 0
    /\ sm_threads' = [sm_threads EXCEPT ![n] = @ - 1]
    /\ mempool_lock[n] = "free"
    /\ IF mempool[n] = <<>>
       THEN UNCHANGED <<miner_process, stop_mining_event, orphans>>
       ELSE /\ stop_mining_event' = [stop_mining_event EXCEPT ![n] = FALSE]
            /\ miner_process' = [miner_process EXCEPT ![n] =
                   [alive |-> TRUE, data |-> data_to_hash(n), nonce |-> 0,
                    difficulty |-> difficulty]]
            /\ orphans' = [orphans EXCEPT ![n] =
                   IF miner_process[n].alive THEN @ \cup {miner_process[n]} ELSE @]
    /\ UNCHANGED <<mempool, mempool_lock, last_block_index, last_block_hash, ledger,
                   result_queue, inbox, nt_threads, nb_threads, cpc, cblk, now, online, node_id, nodes_table, key_files,
                   nb_warning, gwVars, appVars>>

\* hashing_process: one iteration of the nonce loop of a process that
\* self.miner_process no longer refers to; it shares the stop event and the result queue.
hashing_process_orphan(n) ==
    \E p \in orphans[n] :
        LET hash_attempt == Sha256(p.data, p.nonce)
        IN  /\ IF stop_mining_event[n]
               THEN /\ orphans' = [orphans EXCEPT ![n] = @ \ {p}]
                    /\ UNCHANGED result_queue
               ELSE IF StartsWithTarget(hash_attempt, p.difficulty)
               THEN /\ result_queue' = [result_queue EXCEPT ![n] = Append(@, <<hash_attempt, p.nonce>>)]
                    /\ orphans' = [orphans EXCEPT ![n] = @ \ {p}]
               ELSE /\ orphans' = [orphans EXCEPT ![n] = (@ \ {p}) \cup {[p EXCEPT !.nonce = @ + 1]}]
                    /\ UNCHANGED result_queue
            /\ UNCHANGED <<mempool, mempool_lock, last_block_index, last_block_hash, ledger,
                           stop_mining_event, miner_process, inbox, nt_threads, nb_threads,
                           cpc, cblk, now, online, node_id, nodes_table, key_files, nb_warning, sm_threads, gwVars, appVars>>

\* The mining processes of node n that are alive.
AliveMiners(n) == Cardinality(orphans[n]) + (IF miner_process[n].alive THEN 1 ELSE 0)

\* One node and the gateway; clients submit transactions, each handled by a thread of
\* its own.
NextStart ==
    \/ \E n \in Nodes :
          \/ HandleNewTransaction(n) \/ StartMining_Check(n) \/ StartMining_Start(n)
          \/ hashing_process(n) \/ hashing_process_orphan(n)
          \/ OnBlockMined_Pop(n) \/ OnBlockMined_Insert(n)
          \/ OnBlockMined_TipIndex(n) \/ OnBlockMined_TipHash(n)
          \/ BroadcastBlock(n) \/ SendBlockConfirmation(n) \/ OnBlockMined_Next(n)
    \/ Tick
    \/ \E t \in 1..MaxSubmit : SubmitTransaction(t)

SpecStart == InitNode /\ [][NextStart]_vars

\* ---- a node process is stopped and started again
\* A load that takes the row of the lowest index
load_last_block_Lowest(rows) ==
    IF rows = {} THEN [index |-> -1, current_hash |-> ZeroHash]
    ELSE LET row == CHOOSE r \in rows : \A q \in rows : q.index >= r.index
         IN  [index |-> row.index, current_hash |-> row.current_hash]

\* __init__ and _load_last_block: the tip is (-1, '0' * 64) unless
\* SELECT "index", current_hash FROM blocks ORDER BY "index" DESC LIMIT 1 gives a row
load_last_block(rows) ==
    IF rows = {} THEN [index |-> -1, current_hash |-> ZeroHash]
    ELSE LET row == CHOOSE r \in rows : \A q \in rows : q.index <= r.index
         IN  [index |-> row.index, current_hash |-> row.current_hash]

\* The process of node n ends (its threads, its mempool and the connections not yet
\* handled go with it) and PoWNode.__init__ runs again on the same port: a new uuid,
\* NodeKeyManager loads the key pair filed under that id or generates and files one,
\* _register_node does INSERT OR REPLACE on the nodes table, init_node_database keeps
\* the tables it finds, _load_last_block sets the tip.
Restart(n) ==
    /\ n \in online
    /\ Cardinality(nodes_table) < Cardinality(Nodes) + MaxRestart
    /\ \E u \in Uuids :
          /\ node_id' = [node_id EXCEPT ![n] = u]
          /\ key_files' = key_files \cup {u}
          /\ nodes_table' = {r \in nodes_table : r.node_id # u} \cup {[node_id |-> u, port |-> n]}
    /\ mempool' = [mempool EXCEPT ![n] = <<>>]
    /\ mempool_lock' = [mempool_lock EXCEPT ![n] = "free"]
    /\ last_block_index' = [last_block_index EXCEPT ![n] = load_last_block(ledger[n]).index]
    /\ last_block_hash' = [last_block_hash EXCEPT ![n] = load_last_block(ledger[n]).current_hash]
    /\ stop_mining_event' = [stop_mining_event EXCEPT ![n] = FALSE]
    /\ result_queue' = [result_queue EXCEPT ![n] = <<>>]
    /\ miner_process' = [miner_process EXCEPT ![n] = NoMiner]
    /\ inbox' = [inbox EXCEPT ![n] = {}]
    /\ nt_threads' = [nt_threads EXCEPT ![n] = 0]
    /\ nb_threads' = [nb_threads EXCEPT ![n] = {}]
    /\ sm_threads' = [sm_threads EXCEPT ![n] = 0]
    /\ orphans' = [orphans EXCEPT ![n] = {}]
    /\ cpc' = [cpc EXCEPT ![n] = "poll"]
    /\ cblk' = [cblk EXCEPT ![n] = NoBlock]
    /\ UNCHANGED <<ledger, now, online, nb_warning, gwVars, appVars>>

\* The listener accepts a connection carrying the peer's block of index TipIndex + 1
\* or the one it mined on top of it.
ReceiveTipBlock(n) ==
    /\ n \in online
    /\ Cardinality(inbox[n]) < 2
    /\ LET b1 == BlockOn(Chain(TipIndex).current_hash, TipIndex + 1, 0, "n2")
           b2 == BlockOn(b1.current_hash, TipIndex + 2, 0, "n2")
       IN  \E b \in {b1, b2} : inbox' = [inbox EXCEPT ![n] = @ \cup {NewBlockMsg(b)}]
    /\ UNCHANGED <<mempool, mempool_lock, last_block_index, last_block_hash, ledger,
                   stop_mining_event, result_queue, miner_process, nt_threads, nb_threads,
                   cpc, cblk, now, online, node_id, nodes_table, key_files, nb_warning,
                   sm_threads, orphans, gwVars, appVars>>

\* One node whose ledger holds blocks 0..TipIndex, that receives blocks of the next two
\* indexes and is restarted at any time.
NextRestart ==
    \/ \E n \in Nodes : ReceiveTipBlock(n)
    \/ \E n \in Nodes : GossipStep(n)
    \/ \E n \in Nodes : Restart(n)

SpecRestart == InitChain /\ [][NextRestart]_vars

\* Two running nodes and the gateway: one submitted transaction is mined and gossiped.
NextPair ==
    \/ \E n \in Nodes : MiningStep(n)
    \/ \E n \in Nodes : GossipStep(n)
    \/ SubmitTransaction(1)

SpecPair == Init /\ [][NextPair]_vars

\* The BUY handler with the submission worker and the gateway, from any wallets; no
\* node is running.
InitBuy ==
    /\ NodeInit /\ GwInit /\ AppInit
    /\ wallets \in [Users -> {0, Price, 4 * Price}]
    /\ online = {}

NextBuy ==
    \/ \E t \in DOMAIN tx_status : Buy(t)
    \/ BuyRejected
    \/ WorkerGet
    \/ GatewaySubmitPurchase
    \/ WorkerWrite

SpecBuy == InitBuy /\ [][NextBuy]_vars

\* The gateway's fan-out with any set of nodes running: submissions of clients and of
\* the submission worker, and the nodes' NEW_TRANSACTION handlers.
InitGateway == NodeInit /\ GwInit /\ AppInit /\ SeedWallets /\ online \in SUBSET Nodes

NextGateway ==
    \/ \E t \in 1..MaxSubmit : SubmitTransaction(t)
    \/ \E t \in DOMAIN tx_status : Buy(t)
    \/ WorkerGet
    \/ GatewaySubmitPurchase
    \/ WorkerWrite
    \/ \E n \in Nodes : HandleNewTransaction(n)

SpecGateway == InitGateway /\ [][NextGateway]_vars

\* The miner processes on their own: each node's miner has just been started on some
\* data with some difficulty, and nothing sets the stop event.
MinerData == [prev_hash : {ZeroHash}, timestamp : 0..MaxClock, index : 0..MaxTx, tx : TxIds]

InitMiner ==
    /\ mempool = [n \in Nodes |-> <<>>]
    /\ mempool_lock = [n \in Nodes |-> "free"]
    /\ last_block_index = [n \in Nodes |-> -1]
    /\ last_block_hash = [n \in Nodes |-> ZeroHash]
    /\ ledger = [n \in Nodes |-> {}]
    /\ stop_mining_event = [n \in Nodes |-> FALSE]
    /\ result_queue = [n \in Nodes |-> <<>>]
    /\ miner_process \in [Nodes -> [alive : {TRUE}, data : MinerData, nonce : {0},
                                     difficulty : {0, difficulty}]]
    /\ inbox = [n \in Nodes |-> {}]
    /\ nt_threads = [n \in Nodes |-> 0]
    /\ nb_threads = [n \in Nodes |-> {}]
    /\ cpc = [n \in Nodes |-> "poll"]
    /\ cblk = [n \in Nodes |-> NoBlock]
    /\ now = 0
    /\ nb_warning = [n \in Nodes |-> ""]
    /\ sm_threads = [n \in Nodes |-> 0]
    /\ orphans = [n \in Nodes |-> {}]
    /\ node_id = [n \in Nodes |-> FirstUuid(n)]
    /\ nodes_table = {[node_id |-> FirstUuid(n), port |-> n] : n \in Nodes}
    /\ key_files = {FirstUuid(n) : n \in Nodes}
    /\ GwInit /\ AppInit /\ SeedWallets /\ AllOnline

NextMiner == \E n \in Nodes : hashing_process(n)

SpecMiner == InitMiner /\ [][NextMiner]_vars

\* The wallet transfer of the consumer on its own, from any wallets.
Accounts == Users \cup {"carol"}
Amounts == {0 - Price, 0, Price, 2 * Price}
Balances == {0, Price, 4 * Price}

InitTransfer ==
    /\ NodeInit /\ GwInit /\ AppInit /\ AllOnline
    /\ wallets \in [Users -> Balances]

\* _start_block_confirmation_listener: a confirmed transaction that carries no tx_id
ConsumeTransaction ==
    \E from_user \in Accounts, to_user \in Accounts, amount \in Amounts :
        /\ \A u \in Users : transfer(wallets, from_user, to_user, amount).wallets[u] <= MaxBalance
        /\ ApplyTransaction([tx_id |-> 0, from |-> from_user, to |-> to_user,
                             amount |-> amount, asset_id |-> ""])
        /\ UNCHANGED <<nodeVars, gwVars, tx_queue, wpc, wtx, wreply, to_timeout, gpc, transfers, buy_req, monitor_alive>>

NextTransfer == ConsumeTransaction

\* _start_block_confirmation_listener: a confirmed transaction without tx_id whose
\* transfer meets an exception of the database
ConsumeTransactionRaising ==
    \E from_user \in Accounts, to_user \in Accounts, amount \in Amounts, at \in Faults :
        LET r == transfer_raising(wallets, from_user, to_user, amount, at)
        IN  /\ wallets' = r.wallets
            /\ xfer' = [from |-> from_user, to |-> to_user, amount |-> amount,
                        ok |-> r.ok, before |-> wallets, asset_id |-> "",
                        owner_before |-> asset_owner, tx_id |-> 0]
            /\ UNCHANGED <<nodeVars, gwVars, tx_status, tx_queue, wpc, wtx, wreply, to_timeout,
                           gpc, expired, emitted, transfers, term_writes, buy_req,
                           monitor_alive, asset_owner>>

\* The confirmation listener on its own: confirmations that carry any transaction
\* data, with or without the asset and a tx_id, known or not; MaxConfirm of them are
\* applied.
ConsumeAny ==
    \E from_user \in Accounts, to_user \in Accounts, amount \in Amounts :
      \E asset_id \in {"", Asset}, tx_id \in {0} \cup DOMAIN tx_status :
        /\ Len(transfers) < MaxConfirm
        /\ ApplyTransaction([tx_id |-> tx_id, from |-> from_user, to |-> to_user,
                             amount |-> amount, asset_id |-> asset_id])
        /\ transfers' = Append(transfers,
               [block_hash |-> ZeroHash, tx_id |-> tx_id,
                ok |-> transfer(wallets, from_user, to_user, amount).ok])
        /\ UNCHANGED <<nodeVars, gwVars, tx_queue, wpc, wtx, wreply, to_timeout, gpc,
                       buy_req, monitor_alive>>

NextConfirm ==
    \/ ConsumeAny
    \/ \E t \in DOMAIN tx_status : Buy(t)

SpecConfirm == InitTransfer /\ [][NextConfirm]_vars

\* The wallet transfer with and without exceptions of the database.
NextTransferFaults == ConsumeTransaction \/ ConsumeTransactionRaising

SpecTransferFaults == InitTransfer /\ [][NextTransferFaults]_vars

SpecTransfer == InitTransfer /\ [][NextTransfer]_vars

\* ================================================================= claims
\* ---------------------------------------------------------------- status map
\* C1: once the status of a tx_id is confirmed, failed or timeout, no step sets it
\* to queued or submitted (there is no edge from a terminal to a non-terminal status).
C1_NoTerminalToNonTerminal ==
    [][\A t \in DOMAIN tx_status :
          tx_status[t].status \in Terminal
              => tx_status'[t].status \notin {"queued", "submitted"}]_vars

\* C5: once a tx_id has a terminal status, neither its status nor its message is
\* changed by any later step; a repeated terminal write leaves the record as it is.
C5_TerminalSticky ==
    [][\A t \in DOMAIN tx_status :
          tx_status[t].status \in Terminal
              => /\ tx_status'[t].status = tx_status[t].status
                 /\ tx_status'[t].message = tx_status[t].message]_vars

Calls(block_hash, t) ==
    {i \in DOMAIN transfers : transfers[i].block_hash = block_hash /\ transfers[i].tx_id = t}

\* C2: when the block_confirmation of one block_hash has reached the consumer twice,
\* exactly one wallet transfer has been applied for each transaction in it and
\* exactly one notification has been emitted for its tx_id.
C2_ConfirmationIdempotent ==
    \A c \in gw_blocks :
        Cardinality(Calls(c.block_hash, c.tx)) >= 2
            => /\ Cardinality({i \in Calls(c.block_hash, c.tx) : transfers[i].ok}) = 1
               /\ emitted[c.tx] = 1

\* Nothing is left to do for the purchase: no message in flight, no thread between
\* two steps, no miner running, no result waiting.
Quiescent ==
    /\ \A t \in DOMAIN tx_status : tx_status[t].status # "none"
    /\ tx_queue = <<>> /\ wpc = "idle"
    /\ gw_inbox = {} /\ conf_inbox = <<>>
    /\ \A n \in online :
          /\ inbox[n] = {} /\ nt_threads[n] = 0 /\ nb_threads[n] = {}
          /\ ~miner_process[n].alive
          /\ result_queue[n] = <<>>
          /\ cpc[n] \in {"poll", "blocked"}

\* C3: two running nodes with empty ledgers, wallets alice=100 and bob=0, one accepted
\* BUY at price 25 before the deadline: whenever the pipeline has come to rest the
\* purchase has been confirmed and the wallets are alice=75, bob=25.
C3_HappyPath ==
    Quiescent
        => /\ \E i \in DOMAIN transfers : transfers[i].tx_id = 1 /\ transfers[i].ok
           /\ wallets = [u \in Users |-> IF u = "alice" THEN 75 ELSE 25]

\* -------------------------------------------------------------- wallet store
Total(w) == w["alice"] + w["bob"]

\* C4: every successful transfer applied by the consumer, for all existing users
\* from and to and every amount, takes amount from the wallet of from, adds amount
\* to the wallet of to and leaves the sum of all wallets unchanged.
C4_Conservation ==
    xfer.ok
        => /\ wallets[xfer.from] = xfer.before[xfer.from] - xfer.amount
           /\ wallets[xfer.to] = xfer.before[xfer.to] + xfer.amount
           /\ Total(wallets) = Total(xfer.before)

\* ------------------------------------------------------------------ ledger
BlockAt(n, i) == {b \in ledger[n] : b.index = i}

\* C7: on every node, in every reachable state, every block B with index > 0 on the
\* ledger follows a stored block A with A.index = B.index - 1 and
\* B.prev_hash = A.current_hash.
C7_ChainLink ==
    \A n \in Nodes : \A b \in ledger[n] :
        b.index > 0 => \E a \in BlockAt(n, b.index - 1) : b.prev_hash = a.current_hash

\* The digest recomputed from the fields a block carries.
Recomputed(b) ==
    Sha256([prev_hash |-> b.prev_hash, timestamp |-> b.timestamp, index |-> b.index, tx |-> b.tx],
           b.nonce)

\* C8: for every block on the ledger of any node, current_hash is the digest of the
\* prev_hash, timestamp, index and transaction stored with that block and its nonce.
C8_HashBinding ==
    \A n \in Nodes : \A b \in ledger[n] : b.current_hash = Recomputed(b)

\* C9: a node never appends a block received from a peer whose current_hash is not
\* the digest recomputed from the block's own prev_hash, timestamp, index,
\* transaction and nonce.
C9_RejectUnboundHash ==
    [][\A n \in Nodes : \A b \in ledger'[n] \ ledger[n] :
          b.miner_id # n => b.current_hash = Recomputed(b)]_vars

\* C10: when the handler of an accepted peer block ends, the entry that was at the
\* head of the node's mempool when the block was accepted is no longer in the mempool.
C10_AcceptDrainsMempoolHead ==
    [][\A n \in Nodes : \A th \in nb_threads[n] \ nb_threads'[n] :
          (th.pc = "stop" /\ th.head # 0)
              => \A i \in DOMAIN mempool'[n] : mempool'[n][i] # th.head]_vars

\* ------------------------------------------------------------------ mining
\* C11: the result collector never blocks: whenever it has finished a locally mined
\* block it is back at polling with the mempool lock released, so that later
\* NEW_TRANSACTION handlers and later mining results can proceed.
C11_CollectorNeverBlocks ==
    \A n \in Nodes : cpc[n] # "blocked" /\ mempool_lock[n] = "free"

\* Node n has nothing left to do: no message unread, no handler thread between two
\* steps, the collector polling an empty result queue.
AtRest(n) ==
    /\ inbox[n] = {} /\ nt_threads[n] = 0 /\ nb_threads[n] = {}
    /\ cpc[n] = "poll" /\ result_queue[n] = <<>>

\* C12: on every node that has come to rest with a non-empty mempool a miner is
\* running: no further NEW_TRANSACTION is needed to get the mempool head mined.
C12_MinerStartedWhenMempoolNonEmpty ==
    \A n \in online : AtRest(n) => (mempool[n] = <<>> \/ miner_process[n].alive)

\* C13: with two nodes and one transaction, once both ledgers hold a block at
\* index 0 it is the same block (current_hash, miner and transaction) on both.
C13_SameBlockZero ==
    \A a \in BlockAt("n1", 0) : \A b \in BlockAt("n2", 0) :
        a.current_hash = b.current_hash /\ a.miner_id = b.miner_id /\ a.tx = b.tx

\* C14: a node's ledger never holds two blocks with the same index, and handling an
\* inbound new_block whose index the ledger already holds changes neither the ledger
\* nor the tip and starts no tip update.
C14_FirstWriteWins ==
    [][\A n \in Nodes :
          /\ \A a, b \in ledger'[n] : a.index = b.index => a = b
          /\ \A m \in inbox[n] :
                (m.type = "new_block" /\ m \notin inbox'[n] /\ BlockAt(n, m.data.index) # {})
                    => /\ ledger'[n] = ledger[n]
                       /\ last_block_index'[n] = last_block_index[n]
                       /\ last_block_hash'[n] = last_block_hash[n]
                       /\ nb_threads'[n] = nb_threads[n]]_vars

\* A block that passed every check against the tip was refused by the ledger, which
\* keeps the block written first.
C14_Witness ==
    \E n \in Nodes : /\ nb_warning[n] = "DB write failed"
                     /\ \E b \in BlockAt(n, 0) : b.miner_id = n
                     /\ Cardinality(ledger[n]) = 1

\* A new_block payload that fails one of the validation steps at node n
FailsValidation(n, p) ==
    \/ p.public_key_pem = ""
    \/ LeadingZeros(p.current_hash) < difficulty
    \/ p.signature # sign_data(p.public_key_pem, p.current_hash)
    \/ p.index # last_block_index[n] + 1
    \/ p.prev_hash # last_block_hash[n]

\* C15: handling an inbound new_block that fails a validation step (missing
\* public_key_pem, PoW prefix, signature, index, prev_hash) leaves the node's ledger,
\* tip, mempool and miner unchanged, starts no tip update, and sends nothing to a
\* peer or to the gateway.
C15_RejectionChangesNothing ==
    [][\A n \in Nodes : \A m \in inbox[n] :
          (m.type = "new_block" /\ m \notin inbox'[n] /\ FailsValidation(n, m.data))
              => /\ ledger'[n] = ledger[n]
                 /\ last_block_index'[n] = last_block_index[n]
                 /\ last_block_hash'[n] = last_block_hash[n]
                 /\ mempool'[n] = mempool[n]
                 /\ miner_process'[n] = miner_process[n]
                 /\ stop_mining_event'[n] = stop_mining_event[n]
                 /\ nb_threads'[n] = nb_threads[n]
                 /\ inbox' = [inbox EXCEPT ![n] = @ \ {m}]
                 /\ gw_inbox' = gw_inbox]_vars

\* A block with a forged signature was dropped by a node that holds a transaction and
\* runs a miner; its ledger is empty and its tip is the initial one.
C15_Witness ==
    \E n \in Nodes : /\ nb_warning[n] = "signature"
                     /\ miner_process[n].alive
                     /\ mempool[n] # <<>>
                     /\ ledger[n] = {}
                     /\ last_block_index[n] = -1

\* C16: when the ledger write of a locally mined block fails, the collector goes
\* back to polling with the tip unchanged and nothing sent; so every block a node has
\* broadcast to a peer or confirmed to the gateway is a block of its own ledger.
C16_FailedWriteAborts ==
    [][\A n \in Nodes :
          /\ (cpc[n] = "insert" /\ cpc'[n] # "insert" /\ ledger'[n] = ledger[n])
                 => /\ cpc'[n] = "poll"
                    /\ last_block_index'[n] = last_block_index[n]
                    /\ last_block_hash'[n] = last_block_hash[n]
                    /\ inbox' = inbox
                    /\ gw_inbox' = gw_inbox
          /\ \A p \in Nodes : \A m \in inbox'[p] :
                 (m.type = "new_block" /\ m.data.miner_id = n) => Row(m.data) \in ledger'[n]
          /\ \A c \in gw_inbox' :
                 c.miner_id = n => \E b \in ledger'[n] : /\ b.current_hash = c.block_hash
                                                        /\ b.index = c.block_index]_vars

\* A node's collector took a mining result and its transaction, the write failed on
\* the block a peer had written at that index, and the collector is polling again:
\* the node's ledger holds the peer's block only and its mempool is empty.
C16_Witness ==
    \E n \in Nodes :
        /\ cpc[n] = "poll" /\ result_queue[n] = <<>> /\ ~miner_process[n].alive
        /\ mempool[n] = <<>> /\ inbox[n] = {} /\ nt_threads[n] = 0
        /\ gw_replies # {}
        /\ ledger[n] # {}
        /\ \A b \in ledger[n] : b.miner_id # n
        /\ \A c \in gw_inbox : c.miner_id # n

\* The BUY just handled is one the handler has to reject
Rejectable(req) ==
    \/ ~req.is_authenticated
    \/ req.username # req.session
    \/ req.asset_id # Asset
    \/ req.username = Seller
    \/ req.amount # Price
    \/ req.username \notin Users
    \/ wallets[req.username] < Price

\* C17: a BUY that has to be rejected (not authenticated, buyer differs from the
\* session user, asset missing, buyer owns the asset, price mismatch, wallet missing,
\* insufficient funds) gets an error reply, creates no status record, enqueues no
\* purchase and causes no call of the gateway; the gateway is only ever called for a
\* tx_id that has a status record.
C17_RejectedBuyHasNoEffect ==
    [][/\ (buy_req' # buy_req /\ Rejectable(buy_req'))
            => /\ buy_req'.reply # "OK|PENDING"
               /\ tx_status' = tx_status
               /\ tx_queue' = tx_queue
               /\ <<wpc, wtx, wreply>>' = <<wpc, wtx, wreply>>
               /\ gw_replies' = gw_replies
               /\ inbox' = inbox
       /\ \A r \in gw_replies' : tx_status'[r.tx].status # "none"]_vars

\* A BUY was refused for insufficient funds: there is no status record, the queue is
\* empty and the gateway was not called.
C17_Witness ==
    /\ buy_req.reply = "ERR02|Insufficient funds"
    /\ \A t \in DOMAIN tx_status : tx_status[t].status = "none"
    /\ tx_queue = <<>>
    /\ gw_replies = {}

\* C18: when the worker has recorded a purchase as failed, on a reply of the gateway
\* other than submitted or on a gateway that cannot be reached, the status of that
\* tx_id is not set to timeout afterwards, so that GET_TX_STATUS, which reports the
\* status of the record, answers FAILED from then on and never TIMEOUT.
C18_FailedNeverTimeout ==
    [][\A t \in DOMAIN tx_status :
          (/\ tx_status[t].status = "failed"
           /\ tx_status[t].message \in {"Transaction failed: no nodes reached", "Gateway error"})
              => tx_status'[t].status # "timeout"]_vars

\* C19: with the worker and the monitor scheduled fairly, a record that is queued or
\* submitted past the deadline is eventually moved to a terminal status.
C19_EventuallyTerminal ==
    \A t \in TxIds :
        (tx_status[t].status \in {"queued", "submitted"} /\ expired[t])
            ~> (tx_status[t].status \in Terminal)

\* The connects added by a step
NewConnects == SubSeq(attempts', Len(attempts) + 1, Len(attempts'))

C21_BlockValidity ==
    [][\A n \in Nodes :
          /\ \A b \in ledger'[n] : /\ LeadingZeros(b.current_hash) >= difficulty
                                    /\ b.signature.over = b.current_hash
          /\ \A r \in ledger'[n] \ ledger[n] :
                \/ /\ cpc[n] = "insert" /\ r = Row(cblk[n])
                   /\ verify_signature(n, r.current_hash, r.signature)
                \/ \E m \in inbox[n] :
                      /\ m.type = "new_block" /\ r = Row(m.data)
                      /\ m.data.public_key_pem # ""
                      /\ verify_signature(m.data.public_key_pem, r.current_hash,
                                          r.signature)]_vars

\* A ledger that holds a block accepted from a peer and a block the node mined.
C21_Witness ==
    \E n \in Nodes : /\ \E b \in ledger[n] : b.miner_id # n
                     /\ \E b \in ledger[n] : b.miner_id = n

\* C22: a miner whose stop event is never set puts exactly one result on the sink and
\* ends; the result is (hash, nonce) for the least nonce >= 0 whose hash meets the
\* difficulty, and with difficulty 0 that nonce is 0.
C22_LeastNonce ==
    [][\A n \in Nodes :
          LET p == miner_process[n]
              k == p.nonce
          IN  /\ IF miner_process'[n].alive THEN result_queue'[n] = <<>>
                                            ELSE Len(result_queue'[n]) = 1
              /\ result_queue'[n] # result_queue[n] =>
                    /\ p.alive /\ ~miner_process'[n].alive
                    /\ result_queue'[n] = << <<Sha256(p.data, k), k>> >>
                    /\ StartsWithTarget(Sha256(p.data, k), p.difficulty)
                    /\ \A j \in 0..(k - 1) : ~StartsWithTarget(Sha256(p.data, j), p.difficulty)
                    /\ (p.difficulty = 0 => k = 0)]_vars

\* one miner has reported a nonce above 0, another has reported at nonce 0 a hash
\* without leading zeros (difficulty 0)
C22_Witness ==
    \E n, m \in Nodes :
        /\ ~miner_process[n].alive /\ Len(result_queue[n]) = 1 /\ result_queue[n][1][2] > 0
        /\ ~miner_process[m].alive /\ Len(result_queue[m]) = 1 /\ result_queue[m][1][2] = 0
        /\ LeadingZeros(result_queue[m][1][1]) = 0

Settled(n, b) ==
    /\ last_block_index[n] = b.index /\ last_block_hash[n] = b.current_hash
    /\ Row(b) \in ledger[n] /\ nb_threads[n] = {}

\* C24: a node whose tip is at index TipIndex drops an otherwise valid new_block of
\* index TipIndex + 2 and changes neither its ledger nor its tip; once it has accepted
\* a valid block of index TipIndex + 1, the same block of index TipIndex + 2, linked to
\* the accepted one, is written to the ledger when it is handled again and is the tip
\* when its handler has finished.
C24_GapThenAccept ==
    [][\A n \in Nodes :
          /\ \A m \in inbox[n] \ inbox'[n] :
                LET p == m.data
                IN  /\ (last_block_index[n] = TipIndex /\ p \in AfterNext) =>
                          /\ ledger'[n] = ledger[n] /\ nb_threads'[n] = nb_threads[n]
                          /\ last_block_index'[n] = TipIndex
                          /\ last_block_hash'[n] = last_block_hash[n]
                    /\ (p \in AfterNext /\ \E b \in NextBlocks :
                                               Settled(n, b) /\ p.prev_hash = b.current_hash) =>
                          /\ ledger'[n] = ledger[n] \cup {Row(p)}
                          /\ \E th \in nb_threads'[n] : th.pc = "tip_index" /\ th.blk = p
          /\ \A r \in ledger'[n] :
                (r.index = TipIndex + 2 /\ nb_threads'[n] = {}) =>
                    /\ last_block_index'[n] = r.index
                    /\ last_block_hash'[n] = r.current_hash]_vars

\* a gap was logged, and the tip is now a block of index TipIndex + 2 on top of an
\* accepted block of index TipIndex + 1
C24_Witness ==
    \E n \in Nodes : \E b6 \in NextBlocks : \E b7 \in AfterNext :
        /\ Settled(n, b7) /\ b7.prev_hash = b6.current_hash /\ Row(b6) \in ledger[n]
        /\ nb_warning[n] = "index" /\ inbox[n] = {}

\* C25: the last transfer succeeded exactly when its amount was positive, both
\* wallets existed and the wallet of from held at least the amount; a successful
\* transfer of the whole balance of from leaves from at 0; no wallet is negative.
C25_TransferContract ==
    /\ xfer # NoXfer =>
          /\ xfer.ok <=> /\ xfer.amount > 0
                         /\ xfer.from \in Users /\ xfer.to \in Users
                         /\ xfer.before[xfer.from] >= xfer.amount
          /\ (xfer.ok /\ xfer.before[xfer.from] = xfer.amount) => wallets[xfer.from] = 0
    /\ \A u \in Users : wallets[u] >= 0

\* the same without the sentence on the balance that is left
C25_SuccessIffAndNonNegative ==
    /\ xfer # NoXfer =>
          (xfer.ok <=> /\ xfer.amount > 0
                       /\ xfer.from \in Users /\ xfer.to \in Users
                       /\ xfer.before[xfer.from] >= xfer.amount)
    /\ \A u \in Users : wallets[u] >= 0

\* C26: for every tx_id the consumer applies at most one wallet transfer over the
\* whole run, whatever the interleaving of the nodes, the gateway and the app server.
C26_OneTransferPerTx ==
    \A t \in TxIds :
        Cardinality({ i \in DOMAIN transfers : transfers[i].tx_id = t /\ transfers[i].ok }) <= 1

\* C27: on every node a transaction that was received once is sealed in at most one
\* block of the node's ledger.
C27_SealedOnce ==
    \A n \in Nodes : \A t \in TxIds : Cardinality({ b \in ledger[n] : b.tx = t }) <= 1

\* ---------------------------------------------------------------- purchases
\* C28: of the purchases of the asset at most one is confirmed with its wallet
\* transfer applied.
C28_OneChargePerAsset ==
    Cardinality({ t \in DOMAIN tx_status :
                    /\ tx_status[t].status = "confirmed"
                    /\ \E i \in DOMAIN transfers : transfers[i].tx_id = t /\ transfers[i].ok }) <= 1

\* C29: no purchase accepted by BUY ends failed for an insufficient balance.
C29_AcceptedNeverShort ==
    \A t \in DOMAIN tx_status :
        ~(tx_status[t].status = "failed" /\ tx_status[t].message = "Insufficient balance")

\* ------------------------------------------------------------ failed transfer
\* C30: whenever the last call of transfer returned failure, for a non-positive
\* amount, a missing wallet, an insufficient balance or an exception inside the
\* transaction, every wallet is exactly what it was before the call.
C30_FailureChangesNothing ==
    (xfer # NoXfer /\ ~xfer.ok) => wallets = xfer.before

\* a call between two different existing users that passed every check and failed
\* on an exception
C30_Witness ==
    /\ ~xfer.ok /\ xfer.amount > 0
    /\ xfer.from \in Users /\ xfer.to \in Users /\ xfer.from # xfer.to
    /\ xfer.before[xfer.from] >= xfer.amount

\* --------------------------------------------------------- mining completion
\* C31: a locally mined block is on its miner's ledger before it is sent to a peer,
\* and it has been sent to every running peer before its block_confirmation is sent
\* to the gateway; every new_block in flight and every block_confirmation at the
\* gateway is of a block that is on the ledger of its miner.
C31_PersistBroadcastConfirm ==
    [][/\ \A p \in Nodes : \A m \in inbox'[p] \ inbox[p] :
              m.type = "new_block" =>
                  /\ Row(m.data) \in ledger[m.data.miner_id]
                  /\ Confirmation(m.data) \notin gw_inbox'
       /\ \A c \in gw_inbox' \ gw_inbox :
              /\ \E r \in ledger[c.miner_id] :
                     r.current_hash = c.block_hash /\ r.index = c.block_index
              /\ cpc[c.miner_id] = "confirm" /\ c = Confirmation(cblk[c.miner_id])
       /\ \A n \in Nodes :
              (cpc'[n] = "confirm" /\ cpc[n] # "confirm") =>
                  \A p \in known_nodes(n) \cap online : NewBlockMsg(cblk[n]) \in inbox'[p]
       /\ \A p \in Nodes : \A m \in inbox'[p] :
              m.type = "new_block" => Row(m.data) \in ledger'[m.data.miner_id]
       /\ \A c \in gw_inbox' :
              \E r \in ledger'[c.miner_id] : r.current_hash = c.block_hash]_vars

\* a node has persisted its block, sent it to its peer and sent the confirmation
C31_Witness ==
    \E n \in Nodes :
        /\ cpc[n] = "next" /\ Row(cblk[n]) \in ledger[n]
        /\ Confirmation(cblk[n]) \in gw_inbox
        /\ \E p \in Nodes \ {n} : NewBlockMsg(cblk[n]) \in inbox[p]

\* C32: when the ledger write of the local mining completion fails, the mempool entry
\* the block was to seal is still in the node's mempool afterwards.
C32_FailedWriteKeepsEntry ==
    [][\A n \in Nodes :
          (cpc[n] = "insert" /\ cpc'[n] = "poll" /\ ledger'[n] = ledger[n]) =>
              \E i \in DOMAIN mempool'[n] : mempool'[n][i] = cblk[n].tx]_vars

\* -------------------------------------------------------- applied confirmation
\* C33: for the transaction the consumer applied last, the owner of the asset was
\* written only if the transfer succeeded, and then it is the transaction's `to`; if
\* the transfer failed the owner is what it was; a transaction with a tx_id has status
\* confirmed exactly when its transfer succeeded and otherwise status failed with the
\* message transfer returned.
C33_OwnerAndStatusFollowTransfer ==
    xfer # NoXfer =>
        /\ asset_owner # xfer.owner_before =>
              xfer.ok /\ xfer.asset_id = Asset /\ asset_owner = xfer.to
        /\ (xfer.ok /\ xfer.asset_id = Asset) => asset_owner = xfer.to
        /\ ~xfer.ok => asset_owner = xfer.owner_before
        /\ xfer.tx_id # 0 =>
              IF xfer.ok
              THEN tx_status[xfer.tx_id].status = "confirmed"
              ELSE /\ tx_status[xfer.tx_id].status = "failed"
                   /\ tx_status[xfer.tx_id].message =
                         transfer(xfer.before, xfer.from, xfer.to, xfer.amount).msg

\* a transaction for the asset whose transfer failed although its `to` is an existing
\* user other than the owner: the owner is the old one and the status is failed
C33_Witness ==
    /\ ~xfer.ok /\ xfer.asset_id = Asset /\ xfer.tx_id # 0
    /\ xfer.to \in Users /\ xfer.to # xfer.owner_before
    /\ tx_status[xfer.tx_id].status = "failed"

\* C34: when the submission worker is done with a purchase, the status it wrote is
\* submitted only if the gateway's reply it read was submitted, it is failed in every
\* other case (another reply, no reply, an exception), and the worker is back at the
\* head of its loop, ready for the next queued purchase.
C34_WorkerWritesThenContinues ==
    [][(wpc \in {"call", "reply"} /\ wpc' \notin {"call", "reply"}) =>
          /\ tx_status'[wtx].status = "submitted" => (wpc = "reply" /\ wreply = "submitted")
          /\ tx_status'[wtx].status # "submitted" => tx_status'[wtx].status = "failed"
          /\ wpc' = "idle"]_vars

\* C35: on every node at most one thread is inside a ledger write (from the insert of
\* the block to the commit) at any time.
C35_OneWriterPerLedger == \A n \in Nodes : Cardinality(InWrite(n)) <= 1

\* C36: on every node at most one mining worker is alive at any time.
C36_OneMiningWorker == \A n \in Nodes : AliveMiners(n) <= 1

C38_SameIdentityAfterRestart ==
    [][\A n \in Nodes :
          Restart(n) =>
             /\ node_id'[n] = node_id[n]
             /\ key_files' = key_files
             /\ Cardinality({r \in nodes_table' : r.port = n}) = 1]_vars

\* C39: a status record comes into being only as the queued record of an accepted BUY
\* (a status write for a tx_id without a record creates none), and a record that
\* exists is never removed.
C39_RecordsOnlyFromBuy ==
    [][\A t \in DOMAIN tx_status :
          /\ (tx_status[t].status = "none" /\ tx_status'[t].status # "none") =>
                 /\ tx_status'[t].status = "queued"
                 /\ buy_req'.reply = "OK|PENDING"
          /\ tx_status[t].status # "none" => tx_status'[t].status # "none"]_vars

\* C40: once a purchase of the asset is confirmed, no later BUY for the asset is
\* accepted and queued.
C40_NoBuyAfterConfirmed ==
    [][(\E t \in DOMAIN tx_status : tx_status[t].status = "confirmed") =>
          \A u \in DOMAIN tx_status :
              ~(tx_status[u].status = "none" /\ tx_status'[u].status = "queued")]_vars

====
